---- MODULE Spec2Model ----
(***************************************************************************)
(* Large-file transcription pipeline of VoiceTextPro: segmentation,        *)
(* upload with retry, job-status polling and result merge.                 *)
(*                                                                         *)
(* Units.  Slicer times (ffprobe / ffmpeg -ss -t) are whole seconds; the   *)
(* float quotient total_duration / num_segments is modelled by integer     *)
(* division, so one second per segment is the rounding tolerance.          *)
(* Provider timestamps (utterance start/end, audio_duration) are whole     *)
(* milliseconds.                                                           *)
(***************************************************************************)
EXTENDS Integers, Sequences, FiniteSets, TLC

(***************************************************************************)
(* Bounds of the model                                                     *)
(***************************************************************************)
\* longest plan the segmented pipelines are run on
MaxSegs == 3
\* transient failures of the status call in one polling run (a provider that is
\* down for good is the input net)
MaxGlitches == 2
\* seconds past its wait budget a time-budgeted poller is followed
Overrun == 10

(***************************************************************************)
(* Program constants                                                       *)
(***************************************************************************)
MB == 1048576
\* enhanced_large_file_processor.create_optimal_segments(target_size_mb=80)
target_size_mb == 80
\* fallback segment duration when ffprobe fails (seconds)
fallback_segment_duration == 600
\* LargeFileTranscriptionProcessor.__init__
large_file_threshold_mb == 100
segment_duration == 600
polling_interval == 30
max_wait_time == 3600
max_retries == 3
\* ComprehensiveLargeFileHandler.upload_with_chunked_strategy(chunk_size, max_retries)
chunked_max_retries == 5
default_chunk_size == 2097152
min_chunk_size == 524288
\* ComprehensiveLargeFileHandler.monitor_with_adaptive_polling
adaptive_max_polls == 720
base_interval == 30
adaptive_threshold == 120
\* RobustLargeFileProcessor.monitor_transcription
robust_max_polls == 480
\* fast_transcription.fast_poll_transcription
fast_max_wait_time == 1800
\* TranscriptionWatcher.watch
watch_max_checks == 120
\* recovery_transcription.poll_transcription_status: max_wait_time = 900
recovery_max_wait_time == 900

Max(a, b) == IF a >= b THEN a ELSE b
Min(a, b) == IF a <= b THEN a ELSE b
CeilDiv(a, b) == (a + b - 1) \div b

VARIABLES
    \* ---- inputs of one pipeline run
    variant,          \* which pipeline runs: "enhanced" | "legacy"
    file_size,        \* bytes of the source file
    total_duration,   \* true audio duration of the source, seconds
    probe_ok,         \* ffprobe answers with the duration
    \* ---- pipeline state
    pc,               \* position of the workflow
    plan,             \* slicer calls made: Seq of [start, dur] (seconds)
    segments,         \* list returned by the segmenter: 0 = original file, k = slice k of plan
    i,                \* loop index of the per-segment loop (1-based)
    job,              \* provider-side state of the job being polled
    poll_elapsed,     \* seconds since poll_transcription_status started
    segment_results,  \* list collected by the per-segment loop
    merged,           \* result of the merge step
    db,               \* the record of the run in the state store
    ret,              \* return value of the workflow: "running" | "True" | "False"
    \* ---- history of the run
    outcome,          \* per entry of segments: how it ended
    got,              \* per entry of segments: the payload the provider returned
    hiProg,           \* highest progress written by the run so far
    \* ---- a poller run on its own
    net,              \* the provider's status endpoint: "up", or the failure it keeps answering
    glitches,         \* transient failures of the status call so far
    poll_count,       \* poll_count / check_count of the poll loop
    seen,             \* terminal outcome the poller has observed: "none" until then
    interval,         \* `interval` of monitor_with_adaptive_polling, 0 before the first pass
    requests,         \* status requests monitor_with_adaptive_polling has made
    \* ---- an uploader run on its own
    attempt,          \* loop variable of the retry loop (0-based)
    up_log,           \* answers to the upload requests made so far
    up_waits,         \* seconds slept between the attempts so far
    chunk_size,       \* bytes per chunk of the chunked uploader
    up_progress,      \* progress values the uploader has passed to the state store
    \* ---- a single-file workflow
    store,            \* the number of writes to the state store that have failed
    \* ---- the disk
    seg_files         \* slice files of the run that are on disk

pipeVars == <<variant, file_size, total_duration, probe_ok, pc, plan, segments, i, job,
              poll_elapsed, segment_results, merged, db, ret, outcome, got, hiProg,
              seg_files>>

\* variables only a poller run on its own uses
pollOnly == <<net, glitches, poll_count, seen, interval, requests>>

\* variables only a pipeline run uses
pipeOnly == <<file_size, total_duration, probe_ok, plan, segments, i, segment_results,
              merged, outcome, got, seg_files>>

\* variables only an uploader run on its own uses
upOnly == <<attempt, up_log, up_waits, chunk_size, up_progress>>

\* variables only a single-file workflow uses
flowOnly == <<store>>

vars == <<pipeVars, pollOnly, upOnly, flowOnly>>

(***************************************************************************)
(* Results of a job.  kind = "data" is a completed transcript, "None" is   *)
(* Python's None, "ZeroDivisionError" an exception raised by the merge.    *)
(* confidence is a fraction <<numerator, denominator>>.  text is a list of *)
(* tokens <<tag, n>>: <<"txt", k>> the text of slice k, <<"mark", k>> the  *)
(* marker "[段落 k]", <<"sep", 0>> a separator.  An utterance carries the   *)
(* slice it was spoken in (src), standing for its words.  chapters are the  *)
(* entries of 'chapters', highlights the entries of                        *)
(* 'auto_highlights_result'.'results', each with the one timestamp it has. *)
(***************************************************************************)
NoneResult ==
    [kind |-> "None", id |-> 0, text |-> <<>>, utterances |-> <<>>,
     chapters |-> <<>>, highlights |-> <<>>,
     confidence |-> <<0, 1>>, audio_duration |-> 0]

RaisedZeroDivision == [NoneResult EXCEPT !.kind = "ZeroDivisionError"]

Truthy(r) == r.kind = "data"

\* planned length of slice k in milliseconds (the whole file for entry 0)
PlannedMs(pl, k) == IF k = 0 THEN 0 ELSE 1000 * pl[k].dur

\* where the speech of entry s ends, in milliseconds from the start of the entry:
\* a slice is spoken to its end
SpokenMs(pl, s) == IF s = 0 THEN 400 ELSE PlannedMs(pl, s)

\* what the provider can return for a completed job on entry s of the plan: with or
\* without text, with or without a reported audio_duration
Payloads(pl, s) ==
    { [kind |-> "data", id |-> 100 + s,
       text |-> t,
       utterances |-> << [start |-> 0, end |-> SpokenMs(pl, s), src |-> s] >>,
       chapters |-> << [start |-> 0, end |-> SpokenMs(pl, s), src |-> s] >>,
       highlights |-> << [start |-> 100, end |-> 200, src |-> s] >>,
       confidence |-> <<80 + s, 1>>,
       audio_duration |-> d] :
         t \in { <<>>, << <<"txt", s>> >> },
         d \in { 0, IF s = 0 THEN 5000 ELSE PlannedMs(pl, s) } }

\* the payloads the legacy pipeline is run on: it never reads audio_duration, and
\* its provider always returns some text
L_Payloads(pl, s) == { r \in Payloads(pl, s) : r.audio_duration # 0 /\ r.text # <<>> }

(***************************************************************************)
(* State store                                                             *)
(***************************************************************************)
InitRecord ==
    [progress |-> 0, status |-> "pending", assemblyai_id |-> 0,
     text |-> <<>>, utterances |-> <<>>, confidence |-> <<0, 1>>, duration |-> 0,
     has_result |-> FALSE, error_message |-> ""]

\* EnhancedLargeFileProcessor.update_db without result_data: progress and status
\* are both written, whatever was passed
E_update_db(rec, progress, status) ==
    [rec EXCEPT !.progress = progress, !.status = status]

\* EnhancedLargeFileProcessor.update_db with result_data
E_update_db_result(rec, progress, status, aid, r) ==
    [rec EXCEPT !.progress = progress, !.status = status, !.assemblyai_id = aid,
                !.text = r.text, !.utterances = r.utterances,
                !.confidence = r.confidence,
                !.duration = r.audio_duration \div 1000,
                !.has_result = TRUE]

\* LargeFileTranscriptionProcessor.update_progress: status only when given
L_update_progress(rec, progress, status) ==
    IF status # "None"
    THEN [rec EXCEPT !.progress = progress, !.status = status]
    ELSE [rec EXCEPT !.progress = progress]

(***************************************************************************)
(* Segmenters                                                              *)
(***************************************************************************)
\* math.ceil(file_size_mb / target_size_mb)
NumSegments(size) == CeilDiv(size, target_size_mb * MB)

\* the slicer calls of create_optimal_segments: -ss i*segment_duration -t segment_duration
SlicePlan(n, d) == [k \in 1..n |-> [start |-> (k - 1) * d, dur |-> d]]

\* every planned slice, materialized or not
Kept_All(n, mat) == [k \in 1..n |-> k]

\* the entries of 1..n that are in mat, in increasing order
RECURSIVE Kept(_, _)
Kept(n, mat) ==
    IF n = 0 THEN <<>>
    ELSE IF n \in mat THEN Append(Kept(n - 1, mat), n) ELSE Kept(n - 1, mat)

\* EnhancedLargeFileProcessor.create_optimal_segments.  fsErr: an exception outside
\* the per-slice try (getsize, mkdir, unlink); mat: the slices ffmpeg produced.
CreateOptimalSegments(size, dur, probeOk, fsErr, mat) ==
    IF fsErr \/ size <= target_size_mb * MB
    THEN [plan |-> <<>>, segments |-> <<0>>]
    ELSE LET n == NumSegments(size)
             d == IF probeOk THEN dur \div n ELSE fallback_segment_duration
         IN  [plan |-> SlicePlan(n, d), segments |-> Kept(n, mat)]

\* LargeFileTranscriptionProcessor.split_audio_file.  dur: the duration get_file_info
\* reports (0 when the probe failed); m: slices produced before the first failure.
SplitAudioFile(dur, m) ==
    IF dur = 0 THEN [plan |-> <<>>, segments |-> <<0>>]
    ELSE LET n == CeilDiv(dur, segment_duration)
         IN  IF n <= 1 THEN [plan |-> <<>>, segments |-> <<0>>]
             ELSE LET made == Min(m, n)
                      tried == Min(m + 1, n)
                  IN  [plan |-> SlicePlan(tried, segment_duration),
                       segments |-> IF made = 0 THEN <<0>> ELSE [k \in 1..made |-> k]]

(***************************************************************************)
(* Mergers                                                                 *)
(***************************************************************************)
ShiftUtterances(us, off) ==
    [k \in 1..Len(us) |-> [us[k] EXCEPT !.start = @ + off, !.end = @ + off]]

\* lines 357-362: every chapter is copied and moved by the offset
ShiftChapters(cs, off) ==
    [k \in 1..Len(cs) |-> [cs[k] EXCEPT !.start = @ + off, !.end = @ + off]]

\* one pass of the loop of merge_segment_transcriptions over results[k..]
RECURSIVE E_MergeLoop(_, _, _)
E_MergeLoop(results, k, acc) ==
    IF k > Len(results) THEN acc
    ELSE LET r == results[k] IN
         IF ~Truthy(r) THEN E_MergeLoop(results, k + 1, acc)
         ELSE E_MergeLoop(results, k + 1,
                [text |-> IF r.text = <<>> THEN acc.text
                          ELSE (IF acc.text = <<>> THEN <<>> ELSE acc.text \o << <<"sep", 0>> >>)
                               \o << <<"mark", k>> >> \o r.text,
                 utterances |-> acc.utterances \o ShiftUtterances(r.utterances, acc.time_offset),
                 highlights |-> acc.highlights \o r.highlights,
                 chapters |-> acc.chapters \o ShiftChapters(r.chapters, acc.time_offset),
                 time_offset |-> acc.time_offset
                                 + (IF r.audio_duration # 0 THEN r.audio_duration ELSE 0),
                 conf_sum |-> acc.conf_sum + r.confidence[1],
                 conf_n |-> acc.conf_n + 1])

\* merge_segment_transcriptions with the average guarded against an empty list of
\* confidences: a merge of failures alone then yields an empty transcript
merge_guarded_average(results) ==
    IF results = <<>> THEN NoneResult
    ELSE IF Len(results) = 1 THEN results[1]
    ELSE LET acc == E_MergeLoop(results, 1,
                      [text |-> <<>>, utterances |-> <<>>, highlights |-> <<>>,
                       chapters |-> <<>>, time_offset |-> 0,
                       conf_sum |-> 0, conf_n |-> 0])
         IN  [kind |-> "data", id |-> 0, text |-> acc.text,
              utterances |-> acc.utterances,
              chapters |-> acc.chapters, highlights |-> acc.highlights,
              confidence |-> IF acc.conf_n = 0 THEN <<0, 1>> ELSE <<acc.conf_sum, acc.conf_n>>,
              audio_duration |-> acc.time_offset]

\* merge_segment_transcriptions without the early return for a single result
merge_without_shortcut(results) ==
    IF results = <<>> THEN NoneResult
    ELSE LET acc == E_MergeLoop(results, 1,
                      [text |-> <<>>, utterances |-> <<>>, highlights |-> <<>>,
                       chapters |-> <<>>, time_offset |-> 0,
                       conf_sum |-> 0, conf_n |-> 0])
         IN  IF acc.conf_n = 0 THEN RaisedZeroDivision
             ELSE [kind |-> "data", id |-> 0, text |-> acc.text,
                   utterances |-> acc.utterances,
                   chapters |-> acc.chapters, highlights |-> acc.highlights,
                   confidence |-> <<acc.conf_sum, acc.conf_n>>,
                   audio_duration |-> acc.time_offset]

\* merge_segment_transcriptions giving up as soon as one result is missing
merge_all_or_nothing(results) ==
    IF results = <<>> \/ \E k \in 1..Len(results) : ~Truthy(results[k]) THEN NoneResult
    ELSE IF Len(results) = 1 THEN results[1]
    ELSE LET acc == E_MergeLoop(results, 1,
                      [text |-> <<>>, utterances |-> <<>>, highlights |-> <<>>,
                       chapters |-> <<>>, time_offset |-> 0,
                       conf_sum |-> 0, conf_n |-> 0])
         IN  [kind |-> "data", id |-> 0, text |-> acc.text,
              utterances |-> acc.utterances,
              chapters |-> acc.chapters, highlights |-> acc.highlights,
              confidence |-> <<acc.conf_sum, acc.conf_n>>,
              audio_duration |-> acc.time_offset]

\* merge_segment_transcriptions dividing the summed confidence by the length of the
\* result list, missing results included
merge_mean_over_all(results) ==
    IF results = <<>> THEN NoneResult
    ELSE IF Len(results) = 1 THEN results[1]
    ELSE LET acc == E_MergeLoop(results, 1,
                      [text |-> <<>>, utterances |-> <<>>, highlights |-> <<>>,
                       chapters |-> <<>>, time_offset |-> 0,
                       conf_sum |-> 0, conf_n |-> 0])
         IN  IF acc.conf_n = 0 THEN RaisedZeroDivision
             ELSE [kind |-> "data", id |-> 0, text |-> acc.text,
                   utterances |-> acc.utterances,
                   chapters |-> acc.chapters, highlights |-> acc.highlights,
                   confidence |-> <<acc.conf_sum, Len(results)>>,
                   audio_duration |-> acc.time_offset]

\* EnhancedLargeFileProcessor.merge_segment_transcriptions
merge_segment_transcriptions(results) ==
    IF results = <<>> THEN NoneResult
    ELSE IF Len(results) = 1 THEN results[1]
    ELSE LET acc == E_MergeLoop(results, 1,
                      [text |-> <<>>, utterances |-> <<>>, highlights |-> <<>>,
                       chapters |-> <<>>, time_offset |-> 0,
                       conf_sum |-> 0, conf_n |-> 0])
         IN  IF acc.conf_n = 0 THEN RaisedZeroDivision
             ELSE [kind |-> "data", id |-> 0, text |-> acc.text,
                   utterances |-> acc.utterances,
                   chapters |-> acc.chapters, highlights |-> acc.highlights,
                   confidence |-> <<acc.conf_sum, acc.conf_n>>,
                   audio_duration |-> acc.time_offset]

\* one pass of the loop of merge_segment_results over results[k..]
RECURSIVE L_MergeLoop(_, _, _)
L_MergeLoop(results, k, acc) ==
    IF k > Len(results) THEN acc
    ELSE LET r == results[k] IN
         IF ~Truthy(r) THEN L_MergeLoop(results, k + 1, acc)
         ELSE L_MergeLoop(results, k + 1,
                [text |-> (IF acc.text = <<>> THEN <<>> ELSE acc.text \o << <<"sp", 0>> >>)
                          \o r.text,
                 utterances |-> acc.utterances \o ShiftUtterances(r.utterances, acc.time_offset),
                 time_offset |-> acc.time_offset + segment_duration])

\* the list handed to merge_segment_results as the merge leaves it: lines 299-304
\* add the offset to the utterances of the partials themselves
L_MergedInPlace(results) ==
    [k \in 1..Len(results) |->
       IF ~Truthy(results[k]) THEN results[k]
       ELSE [results[k] EXCEPT !.utterances =
               ShiftUtterances(@, segment_duration
                                  * Cardinality({ j \in 1..(k - 1) : Truthy(results[j]) }))]]

\* LargeFileTranscriptionProcessor.merge_segment_results
merge_segment_results(results) ==
    LET acc == L_MergeLoop(results, 1, [text |-> <<>>, utterances |-> <<>>, time_offset |-> 0])
    IN  [kind |-> "data", id |-> 0, text |-> acc.text, utterances |-> acc.utterances,
         chapters |-> <<>>, highlights |-> <<>>,
         confidence |-> <<0, 1>>, audio_duration |-> acc.time_offset]

(***************************************************************************)
(* Inputs of a run                                                         *)
(***************************************************************************)
Sizes ==
    { 50 * MB, target_size_mb * MB, target_size_mb * MB + 1,
      large_file_threshold_mb * MB, large_file_threshold_mb * MB + 1,
      MaxSegs * target_size_mb * MB }

Durations == { 30, 601, segment_duration * MaxSegs }

Responses == { "ok", "fail" }

PipeInit ==
    /\ variant \in { "enhanced", "legacy" }
    /\ file_size \in Sizes
    /\ total_duration \in Durations
    /\ probe_ok \in BOOLEAN
    /\ pc = "start"
    /\ plan = <<>>
    /\ segments = <<>>
    /\ i = 1
    /\ job = "none"
    /\ poll_elapsed = 0
    /\ segment_results = <<>>
    /\ merged = NoneResult
    /\ db = InitRecord
    /\ ret = "running"
    /\ outcome = <<>>
    /\ got = <<>>
    /\ hiProg = 0
    /\ net = "up" /\ glitches = 0 /\ poll_count = 0 /\ seen = "none"
    /\ interval = 0 /\ requests = 0
    /\ attempt = 0 /\ up_log = <<>> /\ up_waits = <<>> /\ chunk_size = 0
    /\ up_progress = <<>>
    /\ store = 0
    /\ seg_files = {}

\* `continue` / end of the body of the per-segment loop
\* the loop left after one segment
NextSegment_Early ==
    /\ i' = i + 1
    /\ pc' = "merge"

NextSegment ==
    /\ i' = i + 1
    /\ pc' = IF i + 1 > Len(segments) THEN "merge" ELSE "upload"

\* the segment ended with tag how and provider payload r (NoneResult when none came)
Record(how, r) ==
    /\ outcome' = Append(outcome, how)
    /\ got' = Append(got, r)

\* the loop's `continue` after a failed upload or a rejected submission
\* the failure is recorded and the segment goes on to the submission
SkipSegment_Submit(how) ==
    /\ i' = i
    /\ pc' = "submit"
    /\ Record(how, NoneResult)

SkipSegment_Break(how) ==
    /\ i' = i
    /\ pc' = "merge"
    /\ Record(how, NoneResult)

SkipSegment(how) ==
    /\ NextSegment
    /\ Record(how, NoneResult)

(***************************************************************************)
(* EnhancedLargeFileProcessor.process_complete_workflow                    *)
(***************************************************************************)
\* lines 393-400: update_db(5, 'processing'), get_file_info
E_Start ==
    /\ variant = "enhanced" /\ pc = "start"
    /\ \E found \in BOOLEAN :
         IF found
         THEN /\ db' = E_update_db(db, 5, "processing")
              /\ hiProg' = Max(hiProg, 5)
              /\ pc' = "segment"
              /\ ret' = ret
         ELSE /\ db' = E_update_db(E_update_db(db, 5, "processing"), 0, "error")
              /\ hiProg' = Max(hiProg, 5)
              /\ pc' = "done"
              /\ ret' = "False"
    /\ UNCHANGED <<pollOnly, upOnly, flowOnly>>
    /\ UNCHANGED seg_files
    /\ UNCHANGED <<variant, file_size, total_duration, probe_ok, plan, segments, i, job,
                   poll_elapsed, segment_results, merged, outcome, got>>

\* lines 405-410: create_optimal_segments, update_db(15, 'processing')
E_Segment ==
    /\ variant = "enhanced" /\ pc = "segment"
    /\ \E fsErr \in BOOLEAN, mat \in SUBSET (1..NumSegments(file_size)) :
         LET cs == CreateOptimalSegments(file_size, total_duration, probe_ok, fsErr, mat)
         IN  /\ plan' = cs.plan
             /\ segments' = cs.segments
             /\ seg_files' = IF cs.plan = <<>> THEN {} ELSE mat
             /\ pc' = IF cs.segments = <<>> THEN "merge" ELSE "upload"
    /\ i' = 1
    /\ db' = E_update_db(db, 15, "processing")
    /\ hiProg' = Max(hiProg, 15)
    /\ UNCHANGED <<pollOnly, upOnly, flowOnly>>
    /\ UNCHANGED <<variant, file_size, total_duration, probe_ok, job, poll_elapsed,
                   segment_results, merged, ret, outcome, got>>

\* lines 416-422: upload_file, then update_db(int(15 + i*40/total_segments))
E_Upload ==
    /\ variant = "enhanced" /\ pc = "upload"
    /\ \E resp \in Responses :
         IF resp = "ok"
         THEN LET progress == 15 + ((i - 1) * 40) \div Len(segments)
              IN  /\ db' = E_update_db(db, progress, "None")
                  /\ hiProg' = Max(hiProg, progress)
                  /\ pc' = "submit"
                  /\ UNCHANGED <<i, outcome, got>>
         ELSE /\ SkipSegment("upfail")
              /\ UNCHANGED <<db, hiProg>>
    /\ UNCHANGED <<pollOnly, upOnly, flowOnly>>
    /\ UNCHANGED seg_files
    /\ UNCHANGED <<variant, file_size, total_duration, probe_ok, plan, segments, job,
                   poll_elapsed, segment_results, merged, ret>>

\* lines 425-428: start_transcription
E_Submit ==
    /\ variant = "enhanced" /\ pc = "submit"
    /\ \E resp \in Responses :
         IF resp = "ok"
         THEN /\ pc' = "monitor"
              /\ UNCHANGED <<i, outcome, got>>
         ELSE /\ SkipSegment("subfail")
    /\ UNCHANGED <<pollOnly, upOnly, flowOnly>>
    /\ UNCHANGED seg_files
    /\ UNCHANGED <<variant, file_size, total_duration, probe_ok, plan, segments, job,
                   poll_elapsed, segment_results, merged, db, ret, hiProg>>

\* lines 431-440: monitor_transcription, append, update_db(int(15 + (i+1)*40/total_segments))
E_Monitor ==
    /\ variant = "enhanced" /\ pc = "monitor"
    /\ \/ \E r \in Payloads(plan, segments[i]) :
            /\ segment_results' = Append(segment_results, r)
            /\ Record("ok", r)
       \/ \E how \in { "error", "timeout" } :
            /\ segment_results' = Append(segment_results, NoneResult)
            /\ Record(how, NoneResult)
    /\ LET progress == 15 + (i * 40) \div Len(segments)
       IN  /\ db' = E_update_db(db, progress, "None")
           /\ hiProg' = Max(hiProg, progress)
    /\ NextSegment
    /\ UNCHANGED <<pollOnly, upOnly, flowOnly>>
    /\ UNCHANGED seg_files
    /\ UNCHANGED <<variant, file_size, total_duration, probe_ok, plan, segments, job,
                   poll_elapsed, merged, ret>>

\* the id of the first result that has one (lines 452-455), 0 when none has
RECURSIVE FirstId(_, _)
FirstId(results, k) ==
    IF k > Len(results) THEN 0
    ELSE IF Truthy(results[k]) /\ results[k].id # 0 THEN results[k].id
    ELSE FirstId(results, k + 1)

\* lines 443-478: update_db(85, 'processing'), merge, save or fail
E_Merge ==
    /\ variant = "enhanced" /\ pc = "merge"
    /\ LET db85 == E_update_db(db, 85, "processing")
           m == merge_segment_transcriptions(segment_results)
           fid == FirstId(segment_results, 1)
           withId == IF fid # 0 THEN [m EXCEPT !.id = fid] ELSE m
       IN  /\ merged' = IF Truthy(m) THEN withId ELSE m
           /\ hiProg' = Max(hiProg, IF Truthy(m) THEN 100 ELSE IF m.kind = "None" THEN 90 ELSE 85)
           /\ IF Truthy(m)
              THEN /\ db' = E_update_db_result(db85, 100, "completed", withId.id, withId)
                   \* lines 461-467: the slice files of the run are unlinked
                   /\ seg_files' = {}
                   /\ ret' = "True"
              ELSE IF m.kind = "None"
              THEN /\ db' = E_update_db(db85, 90, "error")
                   /\ ret' = "False"
                   /\ UNCHANGED seg_files
              ELSE \* except Exception: update_db(0, 'error')
                   /\ db' = E_update_db(db85, 0, "error")
                   /\ ret' = "False"
                   /\ UNCHANGED seg_files
    /\ pc' = "done"
    /\ UNCHANGED <<pollOnly, upOnly, flowOnly>>
    /\ UNCHANGED <<variant, file_size, total_duration, probe_ok, plan, segments, i, job,
                   poll_elapsed, segment_results, outcome, got>>

E_Next == E_Start \/ E_Segment \/ E_Upload \/ E_Submit \/ E_Monitor \/ E_Merge

(***************************************************************************)
(* LargeFileTranscriptionProcessor.process_large_file                      *)
(***************************************************************************)
\* get_file_info: duration 0 when the probe fails, is_large assumed then
FileInfo(size, dur, probeOk) ==
    [size |-> size,
     duration |-> IF probeOk THEN dur ELSE 0,
     is_large |-> IF probeOk THEN size > large_file_threshold_mb * MB ELSE TRUE]

\* lines 328-341: get_file_info, update_progress(15), choice of the strategy
L_Start ==
    /\ variant = "legacy" /\ pc = "start"
    /\ LET info == FileInfo(file_size, total_duration, probe_ok)
       IN  pc' = IF info.is_large /\ info.duration > segment_duration
                 THEN "split" ELSE "s_upload"
    /\ db' = L_update_progress(db, 15, "None")
    /\ hiProg' = Max(hiProg, 15)
    /\ UNCHANGED <<pollOnly, upOnly, flowOnly>>
    /\ UNCHANGED seg_files
    /\ UNCHANGED <<variant, file_size, total_duration, probe_ok, plan, segments, i, job,
                   poll_elapsed, segment_results, merged, ret, outcome, got>>

\* lines 336-338: split_audio_file (which probes again), then segmented or single
L_Split ==
    /\ variant = "legacy" /\ pc = "split"
    /\ \E probe2 \in BOOLEAN, m \in 0..CeilDiv(total_duration, segment_duration) :
         LET sp == SplitAudioFile(FileInfo(file_size, total_duration, probe2).duration, m)
         IN  /\ plan' = sp.plan
             /\ segments' = IF Len(sp.segments) > 1 THEN sp.segments ELSE <<0>>
             /\ seg_files' = { sp.segments[k] : k \in 1..Len(sp.segments) } \ { 0 }
             /\ pc' = IF Len(sp.segments) > 1 THEN "upload" ELSE "s_upload"
    /\ i' = 1
    /\ UNCHANGED <<pollOnly, upOnly, flowOnly>>
    /\ UNCHANGED <<variant, file_size, total_duration, probe_ok, job, poll_elapsed,
                   segment_results, merged, db, ret, outcome, got, hiProg>>

progress_per_segment == 70 \div Len(segments)

\* lines 360-367: upload_with_retry, update_progress(base + i*pps + pps // 3)
L_Upload ==
    /\ variant = "legacy" /\ pc = "upload"
    /\ \E resp \in Responses :
         IF resp = "ok"
         THEN LET progress == 20 + ((i - 1) * progress_per_segment)
                                 + (progress_per_segment \div 3)
              IN  /\ db' = L_update_progress(db, progress, "None")
                  /\ hiProg' = Max(hiProg, progress)
                  /\ pc' = "submit"
                  /\ UNCHANGED <<i, outcome, got>>
         ELSE /\ SkipSegment("upfail")
              /\ UNCHANGED <<db, hiProg>>
    /\ UNCHANGED <<pollOnly, upOnly, flowOnly>>
    /\ UNCHANGED seg_files
    /\ UNCHANGED <<variant, file_size, total_duration, probe_ok, plan, segments, job,
                   poll_elapsed, segment_results, merged, ret>>

\* lines 370-380: start_transcription, update_assemblyai_id for the first segment
L_Submit ==
    /\ variant = "legacy" /\ pc = "submit"
    /\ \E resp \in Responses :
         IF resp = "ok"
         THEN /\ pc' = "poll"
              /\ job' = "queued"
              /\ poll_elapsed' = 0
              /\ db' = IF i = 1 THEN [db EXCEPT !.assemblyai_id = 100 + segments[i]] ELSE db
              /\ UNCHANGED <<i, outcome, got>>
         ELSE /\ SkipSegment("subfail")
              /\ UNCHANGED <<job, poll_elapsed, db>>
    /\ UNCHANGED <<pollOnly, upOnly, flowOnly>>
    /\ UNCHANGED seg_files
    /\ UNCHANGED <<variant, file_size, total_duration, probe_ok, plan, segments,
                   segment_results, merged, ret, hiProg>>

\* the provider moves the job on
ProviderStep ==
    /\ pc \in { "poll", "s_poll" }
    /\ \/ job = "queued" /\ job' \in { "processing", "error" }
       \/ job = "processing" /\ job' \in { "completed", "error" }
    /\ UNCHANGED <<pollOnly, upOnly, flowOnly>>
    /\ UNCHANGED seg_files
    /\ UNCHANGED <<variant, file_size, total_duration, probe_ok, pc, plan, segments, i,
                   poll_elapsed, segment_results, merged, db, ret, outcome, got, hiProg>>

\* progress poll_transcription_status writes for a non-terminal status (lines 251-258)
L_PollProgress(status) ==
    IF status = "queued" THEN 25 ELSE IF status = "processing" THEN 50 ELSE 30

\* lines 380-386 with one iteration of poll_transcription_status (lines 231-264)
L_Poll ==
    /\ variant = "legacy" /\ pc = "poll"
    /\ poll_elapsed < max_wait_time
    /\ \E resp \in Responses :
         IF resp = "ok" /\ job = "completed"
         THEN \E r \in L_Payloads(plan, segments[i]) :
                LET progress == 20 + (i * progress_per_segment)
                IN  /\ segment_results' = Append(segment_results, r)
                    /\ db' = L_update_progress(db, progress, "None")
                    /\ hiProg' = Max(hiProg, progress)
                    /\ NextSegment
                    /\ Record("ok", r)
                    /\ UNCHANGED poll_elapsed
         ELSE IF resp = "ok" /\ job = "error"
         THEN /\ NextSegment
              /\ Record("error", NoneResult)
              /\ UNCHANGED <<segment_results, db, hiProg, poll_elapsed>>
         ELSE IF resp = "ok"
         THEN /\ db' = L_update_progress(db, L_PollProgress(job), "None")
              /\ hiProg' = Max(hiProg, L_PollProgress(job))
              /\ poll_elapsed' = poll_elapsed + polling_interval
              /\ UNCHANGED <<segment_results, i, pc, outcome, got>>
         ELSE /\ poll_elapsed' = poll_elapsed + polling_interval
              /\ UNCHANGED <<segment_results, db, hiProg, i, pc, outcome, got>>
    /\ UNCHANGED <<pollOnly, upOnly, flowOnly>>
    /\ UNCHANGED seg_files
    /\ UNCHANGED <<variant, file_size, total_duration, probe_ok, plan, segments, job,
                   merged, ret>>

\* lines 266-267, 385-386: the wait budget is used up
L_PollTimeout ==
    /\ variant = "legacy" /\ pc = "poll"
    /\ poll_elapsed >= max_wait_time
    /\ NextSegment
    /\ Record("timeout", NoneResult)
    /\ UNCHANGED <<pollOnly, upOnly, flowOnly>>
    /\ UNCHANGED seg_files
    /\ UNCHANGED <<variant, file_size, total_duration, probe_ok, plan, segments, job,
                   poll_elapsed, segment_results, merged, db, ret, hiProg>>

\* lines 388-395 and _save_transcription_result
L_Finish ==
    /\ variant = "legacy" /\ pc = "merge"
    /\ IF segment_results = <<>>
       THEN /\ db' = L_update_progress(db, 0, "error")
            /\ ret' = "False"
            /\ UNCHANGED <<merged, hiProg>>
       ELSE /\ merged' = merge_segment_results(segment_results)
            /\ db' = L_update_progress(db, 100, "completed")
            /\ hiProg' = Max(hiProg, 100)
            /\ ret' = "True"
    \* the merge shifts the utterances of the partials it was given
    /\ segment_results' = L_MergedInPlace(segment_results)
    /\ pc' = "done"
    /\ UNCHANGED <<pollOnly, upOnly, flowOnly>>
    /\ UNCHANGED seg_files
    /\ UNCHANGED <<variant, file_size, total_duration, probe_ok, plan, segments, i, job,
                   poll_elapsed, outcome, got>>

(***************************************************************************)
(* LargeFileTranscriptionProcessor._process_single_file                    *)
(***************************************************************************)
\* fail of the single-file path: update_progress(0, 'error'), return False
LS_Fail(how) ==
    /\ db' = L_update_progress(db, 0, "error")
    /\ ret' = "False"
    /\ pc' = "done"
    /\ Record(how, NoneResult)

\* lines 402-407
LS_Upload ==
    /\ variant = "legacy" /\ pc = "s_upload"
    /\ \E resp \in Responses :
         IF resp = "ok"
         THEN /\ db' = L_update_progress(db, 30, "None")
              /\ hiProg' = Max(hiProg, 30)
              /\ pc' = "s_submit"
              /\ UNCHANGED <<ret, outcome, got>>
         ELSE /\ LS_Fail("upfail")
              /\ UNCHANGED hiProg
    /\ segments' = <<0>>
    /\ UNCHANGED <<pollOnly, upOnly, flowOnly>>
    /\ UNCHANGED seg_files
    /\ UNCHANGED <<variant, file_size, total_duration, probe_ok, plan, i, job,
                   poll_elapsed, segment_results, merged>>

\* lines 410-417
LS_Submit ==
    /\ variant = "legacy" /\ pc = "s_submit"
    /\ \E resp \in Responses :
         IF resp = "ok"
         THEN /\ db' = L_update_progress([db EXCEPT !.assemblyai_id = 100], 40, "None")
              /\ hiProg' = Max(hiProg, 40)
              /\ pc' = "s_poll"
              /\ job' = "queued"
              /\ poll_elapsed' = 0
              /\ UNCHANGED <<ret, outcome, got>>
         ELSE /\ LS_Fail("subfail")
              /\ UNCHANGED <<hiProg, job, poll_elapsed>>
    /\ UNCHANGED <<pollOnly, upOnly, flowOnly>>
    /\ UNCHANGED seg_files
    /\ UNCHANGED <<variant, file_size, total_duration, probe_ok, plan, segments, i,
                   segment_results, merged>>

\* lines 420-425 with one iteration of poll_transcription_status
LS_Poll ==
    /\ variant = "legacy" /\ pc = "s_poll"
    /\ poll_elapsed < max_wait_time
    /\ \E resp \in Responses :
         IF resp = "ok" /\ job = "completed"
         THEN \E r \in L_Payloads(plan, 0) :
                /\ merged' = r
                /\ db' = L_update_progress(db, 100, "completed")
                /\ hiProg' = Max(hiProg, 100)
                /\ ret' = "True"
                /\ pc' = "done"
                /\ Record("ok", r)
                /\ UNCHANGED poll_elapsed
         ELSE IF resp = "ok" /\ job = "error"
         THEN /\ LS_Fail("error")
              /\ UNCHANGED <<merged, hiProg, poll_elapsed>>
         ELSE IF resp = "ok"
         THEN /\ db' = L_update_progress(db, L_PollProgress(job), "None")
              /\ hiProg' = Max(hiProg, L_PollProgress(job))
              /\ poll_elapsed' = poll_elapsed + polling_interval
              /\ UNCHANGED <<merged, ret, pc, outcome, got>>
         ELSE /\ poll_elapsed' = poll_elapsed + polling_interval
              /\ UNCHANGED <<merged, db, hiProg, ret, pc, outcome, got>>
    /\ UNCHANGED <<pollOnly, upOnly, flowOnly>>
    /\ UNCHANGED seg_files
    /\ UNCHANGED <<variant, file_size, total_duration, probe_ok, plan, segments, i, job,
                   segment_results>>

LS_PollTimeout ==
    /\ variant = "legacy" /\ pc = "s_poll"
    /\ poll_elapsed >= max_wait_time
    /\ LS_Fail("timeout")
    /\ UNCHANGED <<pollOnly, upOnly, flowOnly>>
    /\ UNCHANGED seg_files
    /\ UNCHANGED <<variant, file_size, total_duration, probe_ok, plan, segments, i, job,
                   poll_elapsed, segment_results, merged, hiProg>>

L_Next ==
    \/ L_Start \/ L_Split \/ L_Upload \/ L_Submit \/ L_Poll \/ L_PollTimeout \/ L_Finish
    \/ LS_Upload \/ LS_Submit \/ LS_Poll \/ LS_PollTimeout

PipeNext == E_Next \/ L_Next \/ ProviderStep

SpecPipe == PipeInit /\ [][PipeNext]_vars

(***************************************************************************)
(* Properties of the pipelines                                             *)
(***************************************************************************)
\* the summed length, in seconds, of the first k slices of a plan
RECURSIVE PlanSum(_, _)
PlanSum(pl, k) == IF k = 0 THEN 0 ELSE pl[k].dur + PlanSum(pl, k - 1)

\* where slice k starts in the original file, in milliseconds
PlanOffsetMs(pl, k) == IF k = 0 THEN 0 ELSE 1000 * PlanSum(pl, k - 1)

NoSuccess == \A p \in 1..Len(outcome) : outcome[p] # "ok"

\* C1: in a merged transcript every utterance of slice k is shifted by the planned
\* length of all slices before k, failed ones included.  Stated for the runs in
\* which every completed job reported the planned length of its slice, so that only
\* a slice that failed can be missing from the offset.
C1_FailedSlicesAdvanceOffset ==
    ( /\ variant = "enhanced" /\ pc = "done" /\ Truthy(merged)
      /\ \A p \in 1..Len(got) :
            outcome[p] = "ok" => got[p].audio_duration = PlannedMs(plan, segments[p]) )
    => \A n \in 1..Len(merged.utterances) :
         LET u == merged.utterances[n]
         IN  u.start >= PlanOffsetMs(plan, u.src)

\* C2: when the length of the file is known and every slice was produced, the plan
\* is contiguous from 0 and its lengths add up to the length of the file, within one
\* second per slice.
C2_PlanCoversFile ==
    (plan # <<>> /\ probe_ok /\ segments = [k \in 1..Len(plan) |-> k])
    => /\ \A k \in 1..Len(plan) : plan[k].start = PlanSum(plan, k - 1)
       /\ PlanSum(plan, Len(plan)) - total_duration <= Len(plan)
       /\ total_duration - PlanSum(plan, Len(plan)) <= Len(plan)

\* C3: while the segmented loop runs, the progress in the state store is the highest
\* value written so far.
C3_ProgressNeverDrops ==
    (ret = "running" /\ pc \in { "upload", "submit", "poll" })
    => db.progress >= hiProg

\* C7: as long as no segment has completed, no transcript and no completed status
\* is stored, and a run that ends so returns False with status error.
C7_NoResultWithoutSuccess ==
    NoSuccess
    => /\ ~db.has_result /\ db.text = <<>> /\ db.status # "completed"
       /\ ~Truthy(merged) /\ ret # "True"
       /\ pc = "done" => (ret = "False" /\ db.status = "error")

C7_AllSegmentsFailed ==
    /\ variant = "enhanced" /\ pc = "done" /\ NoSuccess
    /\ Len(segment_results) = 2 /\ merged.kind = "ZeroDivisionError"

SmallFile ==
    \/ variant = "enhanced" /\ file_size <= target_size_mb * MB
    \/ variant = "legacy" /\ file_size <= large_file_threshold_mb * MB

\* C8: a file at or below the size threshold is never sliced: the only segment is
\* the file itself, and what a successful run returns and stores is the provider's
\* result for it, unchanged.
C8_SmallFilePassesThrough ==
    SmallFile
    => /\ plan = <<>>
       /\ segments \in { <<>>, <<0>> }
       /\ pc \in { "upload", "submit", "monitor", "merge", "s_submit", "s_poll" }
            => segments = <<0>>
       /\ (pc = "done" /\ ret = "True")
            => /\ merged = got[1]
               /\ variant = "enhanced"
                    => /\ db.text = got[1].text
                       /\ db.utterances = got[1].utterances
                       /\ db.confidence = got[1].confidence
                       /\ db.assemblyai_id = got[1].id

C8_SmallFileDone ==
    /\ variant = "enhanced" /\ file_size = target_size_mb * MB
    /\ pc = "done" /\ ret = "True" /\ got[1].text # <<>>

\* C10: a segment that fails does not end the run: every segment of the list gets
\* its turn, and the merged transcript holds every segment that completed.
C10_FailuresAreIsolated ==
    pc = "done"
    => /\ Len(outcome) = Len(segments)
       /\ \A p \in 1..Len(outcome) :
            outcome[p] = "ok"
            => /\ ret = "True" /\ db.status = "completed"
               /\ \E n \in 1..Len(merged.utterances) :
                     merged.utterances[n].src = segments[p]
               /\ got[p].text # <<>>
                    => \E n \in 1..Len(merged.text) : merged.text[n] = got[p].text[1]

C10_LaterSegmentsSurvive ==
    /\ pc = "done" /\ Len(segments) = 3
    /\ outcome[1] \in { "upfail", "subfail" } /\ outcome[2] # "ok" /\ outcome[3] = "ok"
    /\ Len(merged.utterances) = 1

\* C11: a run ends with status completed exactly when a merged transcript was
\* produced, which is exactly when some segment completed; every other run ends
\* with status error.
C11_CompletedIffMerged ==
    pc = "done"
    => /\ db.status = "completed" <=> Truthy(merged)
       /\ Truthy(merged) <=> ~NoSuccess
       /\ db.status \in { "completed", "error" }
       /\ ret = "True" <=> db.status = "completed"

C11_CompletedFromSubset ==
    /\ variant = "enhanced" /\ pc = "done" /\ outcome = << "error", "ok" >>
    /\ db.status = "completed" /\ db.progress = 100

\* C18: the merge is a barrier. It starts only when every segment has ended (done,
\* failed or timed out), it runs at most once, and once it has started no segment is
\* uploaded, submitted or polled any more: no ending is recorded, the provider job
\* does not move and no partial result is fetched (the legacy merge shifts the
\* timestamps of the partials it was handed, which is no provider call). (The
\* single-file path of the legacy pipeline, position s_poll, stores its one result
\* without a merge.)
C18_MergeIsBarrier ==
    [][ /\ pc' = "merge" => (Len(outcome') = Len(segments') /\ i' > Len(segments'))
        /\ (merged' # merged /\ pc # "s_poll") => pc = "merge"
        /\ pc = "merge" => (/\ pc' = "done" /\ outcome' = outcome /\ job' = job
                            /\ Len(segment_results') = Len(segment_results)
                            /\ \A k \in 1..Len(segment_results) :
                                  /\ segment_results'[k].kind = segment_results[k].kind
                                  /\ segment_results'[k].id = segment_results[k].id
                                  /\ segment_results'[k].text = segment_results[k].text)
        /\ pc = "done" => pc' = "done" ]_vars

\* a merge about to start over segments of which some completed and some failed
C18_MergeAfterMixedSegments ==
    /\ pc = "merge" /\ Len(segments) >= 2 /\ Len(outcome) = Len(segments)
    /\ \E p \in 1..Len(outcome) : outcome[p] = "ok"
    /\ \E p \in 1..Len(outcome) : outcome[p] # "ok"

\* the segmenter tried to slice the file and no slice came into being
ZeroMaterialized ==
    /\ plan # <<>>
    /\ \A k \in 1..Len(segments) : segments[k] = 0

\* C19: when the segmenter of an oversized file materializes no slice, nothing is
\* uploaded or submitted, and the run ends failed with a record that differs from
\* the one the merge leaves when no segment succeeded (progress 90, status error).
C19_ZeroSegmentsFailPlan ==
    (ZeroMaterialized /\ pc \notin { "segment", "split" })
        => /\ pc \notin { "upload", "submit", "monitor", "poll",
                          "s_upload", "s_submit", "s_poll" }
           /\ outcome = <<>>
           /\ pc = "done" => (/\ ret = "False" /\ db.status = "error"
                              /\ db.progress # 90)

\* C20: when a run has ended, completed or failed, no slice file of the run is left
\* on disk.
C20_SegmentFilesDeleted ==
    pc = "done" => seg_files = {}

\* C21: a file is sliced exactly when it is larger than 100 MB; a file of 100 MB or
\* less goes through unsegmented, in both pipelines.
C21_LargeIffOverThreshold ==
    pc \in { "upload", "s_upload", "merge" }
        => (plan # <<>> <=> file_size > large_file_threshold_mb * MB)

\* the enhanced segmenter has returned for a file larger than the target size
OverTargetSegmented ==
    /\ variant = "enhanced" /\ file_size > target_size_mb * MB
    /\ pc \in { "upload", "submit", "monitor", "merge" }

Polling == { "monitor", "poll" }

\* C24: for each segment the steps run in the order upload, submit, poll. A job is
\* submitted only from the upload of the same segment and only when that upload
\* gave a handle; polling starts only from the submission of the same segment; a
\* failed upload or submission ends the segment; the loop never goes back to a
\* segment, so a segment gets at most one handle and one job.
C24_UploadSubmitPoll ==
    [][ /\ pc' = "submit" => (pc = "upload" /\ i' = i /\ outcome' = outcome)
        /\ (pc' \in Polling /\ pc \notin Polling)
              => (pc = "submit" /\ i' = i /\ outcome' = outcome)
        /\ (pc = "upload" /\ pc' # "submit")
              => (i' = i + 1 /\ outcome' = Append(outcome, "upfail"))
        /\ (pc = "submit" /\ pc' \notin Polling)
              => (i' = i + 1 /\ outcome' = Append(outcome, "subfail"))
        /\ (pc \in Polling /\ pc' # pc) => (i' = i + 1 /\ Len(outcome') = Len(outcome) + 1)
        /\ pc' = "upload" => (pc \in { "segment", "split" } \/ i' = i + 1)
        /\ pc' = "s_submit" => pc = "s_upload"
        /\ (pc' = "s_poll" /\ pc # "s_poll") => pc = "s_submit"
        /\ i' >= i ]_vars

\* the second segment's job is polled after the first segment's upload failed
C24_SecondSegmentPolled ==
    /\ pc \in Polling /\ i = 2 /\ outcome = <<"upfail">>

\* every slice of the plan was produced, so that entry k of the segment list is
\* slice k of the plan
AllMaterialized == plan # <<>> /\ segments = [k \in 1..Len(plan) |-> k]

\* C25: in a merged transcript the number in a marker "[段落 k]" is the plan index
\* of the slice whose text follows it, whichever earlier segments failed at upload,
\* at submission or at polling.
C25_MarkerIsPlanIndex ==
    (variant = "enhanced" /\ pc = "done" /\ Truthy(merged) /\ AllMaterialized)
    => \A n \in 1..(Len(merged.text) - 1) :
         merged.text[n][1] = "mark" => merged.text[n + 1] = <<"txt", merged.text[n][2]>>

\* what the offset should be after the first p segments: a completed segment adds
\* the audio_duration its job reported, or its planned length when none was reported
RECURSIVE ExpectedOffset(_)
ExpectedOffset(p) ==
    IF p = 0 THEN 0
    ELSE ExpectedOffset(p - 1)
         + ( IF outcome[p] # "ok" THEN 0
             ELSE IF got[p].audio_duration # 0 THEN got[p].audio_duration
             ELSE PlannedMs(plan, segments[p]) )

\* the merge loop ran over the results of a sliced file
LoopMerged ==
    /\ pc = "done" /\ Truthy(merged) /\ plan # <<>>
    /\ \/ variant = "enhanced" /\ Len(segment_results) > 1
       \/ variant = "legacy" /\ Len(segments) > 1

\* C26: the merger advances the offset, after each completed segment, by the
\* audio_duration the provider reported and by the planned length of the slice when
\* none was reported; the offset after the last segment is the sum of these.
C26_OffsetAdvancesPerSuccess ==
    LoopMerged => merged.audio_duration = ExpectedOffset(Len(outcome))

\* the offset merge_segment_transcriptions holds when it reaches results[p]
RECURSIVE OffsetAt(_, _)
OffsetAt(results, p) ==
    IF p <= 1 THEN 0
    ELSE OffsetAt(results, p - 1)
         + (IF Truthy(results[p - 1]) THEN results[p - 1].audio_duration ELSE 0)

\* every item of rs is in ms with start and end moved by off
MovedInto(ms, rs, off) ==
    \A q \in 1..Len(rs) :
       \E n \in 1..Len(ms) : ms[n] = [rs[q] EXCEPT !.start = @ + off, !.end = @ + off]

\* the enhanced merge loop ran and produced a transcript
EnhancedMerged ==
    variant = "enhanced" /\ pc = "done" /\ Truthy(merged) /\ Len(segment_results) > 1

\* the utterances and the chapters of every completed partial are merged moved by
\* the offset the merger held when it reached the partial
UtterancesAndChaptersMoved ==
    EnhancedMerged
    => \A p \in 1..Len(segment_results) :
         LET r == segment_results[p]
             off == OffsetAt(segment_results, p)
         IN  Truthy(r) => /\ MovedInto(merged.utterances, r.utterances, off)
                          /\ MovedInto(merged.chapters, r.chapters, off)

\* C27: every timestamped item of a completed partial (utterance, chapter,
\* highlight) is merged with its start and end moved by the offset the merger held
\* when it reached the partial.
C27_EveryItemShifted ==
    /\ UtterancesAndChaptersMoved
    /\ EnhancedMerged
       => \A p \in 1..Len(segment_results) :
            LET r == segment_results[p]
            IN  Truthy(r) => MovedInto(merged.highlights, r.highlights,
                                       OffsetAt(segment_results, p))

\* the merged text and the merged utterances list the slices in increasing plan index
PlanOrderKept ==
    /\ \A m, n \in 1..Len(merged.utterances) :
          m < n => merged.utterances[m].src < merged.utterances[n].src
    /\ \A m, n \in 1..Len(merged.text) :
          (m < n /\ merged.text[m][1] = "txt" /\ merged.text[n][1] = "txt")
             => merged.text[m][2] < merged.text[n][2]

\* a sliced file ended with a merged transcript
SlicedMerged == pc = "done" /\ Truthy(merged) /\ plan # <<>>

\* C28: segments are merged in plan order: the merged text and utterances list the
\* completed slices in increasing plan index, the first utterance is merged with
\* offset 0, and an utterance of a later slice never starts before an utterance of
\* an earlier slice has ended.
C28_MergedInPlanOrder ==
    SlicedMerged
    => /\ PlanOrderKept
       /\ merged.utterances # <<>> => merged.utterances[1].start = 0
       /\ \A m, n \in 1..Len(merged.utterances) :
             m < n => merged.utterances[n].start >= merged.utterances[m].end

\* the summed confidence and the number of the completed segments among the first p
RECURSIVE ConfSum(_)
ConfSum(p) ==
    IF p = 0 THEN 0
    ELSE ConfSum(p - 1) + (IF outcome[p] = "ok" THEN got[p].confidence[1] ELSE 0)

OkCount(p) == Cardinality({ q \in 1..p : outcome[q] = "ok" })

\* C29: the merged confidence is the mean of the confidences of the completed
\* segments only (their sum over their number), and the merged duration is the
\* offset the merger holds after the last result.
C29_MeanOverSuccessesOnly ==
    (variant = "enhanced" /\ SlicedMerged)
    => /\ merged.confidence = <<ConfSum(Len(outcome)), OkCount(Len(outcome))>>
       /\ merged.audio_duration = OffsetAt(segment_results, Len(segment_results) + 1)

\* a transcript merged from the first and the third segment, the poll of the second
\* having failed
C29_MeanSkipsFailedPoll ==
    /\ variant = "enhanced" /\ SlicedMerged
    /\ outcome = <<"ok", "error", "ok">> /\ Len(segment_results) = 3
    /\ merged.confidence = <<164, 2>> /\ merged.audio_duration > 0

\* the number of slices the segmenter plans for the file
PlannedSlices ==
    IF variant = "enhanced" THEN NumSegments(file_size)
    ELSE CeilDiv(total_duration, segment_duration)

\* the slicer was called for every planned slice, each at its planned start
EverySliceTried ==
    (plan # <<>> /\ pc \in { "upload", "s_upload", "merge" })
    => /\ Len(plan) = PlannedSlices
       /\ \A k \in 1..Len(plan) : plan[k].start = (k - 1) * plan[k].dur

\* every segment of the list completed and reported the planned length of its slice
EverySegmentCompleted ==
    /\ Len(outcome) = Len(segments)
    /\ \A p \in 1..Len(outcome) :
          outcome[p] = "ok" /\ got[p].audio_duration = PlannedMs(plan, segments[p])

\* C30: a slice that could not be produced drops only itself: the slicer is still
\* called for every later slice at its planned start, and the time range of the
\* dropped slice is accounted for by the merger, which places the utterances of
\* every later slice at the planned start of that slice.
C30_DropsOnlyFailedSlice ==
    /\ EverySliceTried
    /\ (variant = "enhanced" /\ SlicedMerged /\ EverySegmentCompleted)
       => \A n \in 1..Len(merged.utterances) :
            LET u == merged.utterances[n]
            IN  u.start = PlanOffsetMs(plan, u.src)

\* C35: between the first write of status 'processing' and the final write, every
\* progress update of the enhanced run leaves the stored status 'processing'.
C35_ProgressKeepsStatus ==
    (variant = "enhanced" /\ pc \in { "segment", "upload", "submit", "monitor", "merge" })
    => db.status = "processing"

\* the utterances a merge of the list rs gives
Remerged(rs) ==
    IF variant = "legacy" THEN merge_segment_results(rs).utterances
    ELSE merge_segment_transcriptions(rs).utterances

\* the enhanced merge leaves the partials it was given as they were
EnhancedMergeLeavesInputs ==
    [][ (variant = "enhanced" /\ pc = "merge" /\ pc' = "done")
        => /\ segment_results' = segment_results
           /\ Truthy(merged') => Remerged(segment_results') = merged'.utterances ]_vars

\* C37: a merge leaves the partials it was given as they were, and merging the same
\* list once more gives the merged utterances again, in the enhanced and in the
\* legacy pipeline.
C37_MergeLeavesInputs ==
    /\ EnhancedMergeLeavesInputs
    /\ [][ (variant = "legacy" /\ pc = "merge" /\ pc' = "done")
            => /\ segment_results' = segment_results
               /\ Truthy(merged') => Remerged(segment_results') = merged'.utterances ]_vars

\* C38: in a transcript merged by merge_segment_results the utterances of the n-th
\* merged segment are moved by the length of the n - 1 segments merged before it in
\* milliseconds, (n - 1) * 600000, and the merged audio_duration is in milliseconds
\* too.  Every partial has one utterance, which starts at 0 in its slice.
C38_OffsetInMilliseconds ==
    (variant = "legacy" /\ LoopMerged)
    => /\ \A n \in 1..Len(merged.utterances) :
             merged.utterances[n].start = (n - 1) * 1000 * segment_duration
       /\ merged.audio_duration = Len(merged.utterances) * 1000 * segment_duration

(***************************************************************************)
(* Pollers run on one job                                                  *)
(***************************************************************************)
Pollers == { "adaptive", "robust", "fast", "simple", "recovery", "realtime", "watch" }

\* the progress the workflow around the poller wrote before polling starts
ProgressBeforePolling(kind) ==
    IF kind = "adaptive" THEN 40
    ELSE IF kind \in { "robust", "simple", "recovery" } THEN 50
    ELSE 0

PollInit ==
    /\ variant \in Pollers
    /\ net \in { "up", "http500", "timeout", "exception" }
    /\ pc = "poll"
    /\ job = "queued"
    /\ poll_elapsed \in IF variant = "realtime" THEN { 0, 10, 20 } ELSE { 0 }
    /\ poll_count = 0
    /\ interval = 0 /\ requests = 0
    /\ glitches = 0
    /\ seen = "none"
    /\ db = [InitRecord EXCEPT !.progress = ProgressBeforePolling(variant),
                               !.status = "processing", !.assemblyai_id = 100]
    /\ hiProg = ProgressBeforePolling(variant)
    /\ ret = "running"
    /\ merged = NoneResult
    /\ file_size = 0 /\ total_duration = 0 /\ probe_ok = TRUE
    /\ plan = <<>> /\ segments = <<>> /\ i = 1
    /\ segment_results = <<>> /\ outcome = <<>> /\ got = <<>>
    /\ attempt = 0 /\ up_log = <<>> /\ up_waits = <<>> /\ chunk_size = 0
    /\ up_progress = <<>>
    /\ store = 0
    /\ seg_files = {}

\* what one status call can answer
StatusResponses ==
    IF net # "up" THEN { net }
    ELSE { "ok" } \cup (IF glitches < MaxGlitches
                        THEN { "http500", "http404", "timeout", "exception" }
                        ELSE {})

Glitch(resp) == glitches' = IF net = "up" /\ resp # "ok" THEN glitches + 1 ELSE glitches

\* the payload of the completed job
JobPayload == CHOOSE r \in L_Payloads(<<>>, 0) : TRUE

\* update_database / update_db of the single-file handlers without transcript data:
\* only the fields given are written
C_update(rec, progress, status) ==
    IF status # "None"
    THEN [rec EXCEPT !.progress = progress, !.status = status]
    ELSE [rec EXCEPT !.progress = progress]

\* update_database / update_db of the single-file handlers with transcript data
C_update_result(rec, progress, status, aid, r) ==
    [rec EXCEPT !.progress = progress, !.status = status, !.assemblyai_id = aid,
                !.text = r.text, !.utterances = r.utterances,
                !.confidence = r.confidence,
                !.duration = r.audio_duration \div 1000,
                !.has_result = TRUE]

\* PATCH /api/transcriptions/<id> with the completed result
PatchCompleted(rec, r) ==
    [rec EXCEPT !.progress = 100, !.status = "completed",
                !.text = r.text, !.utterances = r.utterances,
                !.confidence = r.confidence, !.duration = r.audio_duration,
                !.has_result = TRUE]

\* the poller ends: final record, return value, terminal outcome observed
Finish(rec, r, s) ==
    /\ db' = rec
    /\ hiProg' = Max(hiProg, rec.progress)
    /\ ret' = r
    /\ pc' = "done"
    /\ seen' = s

\* a progress-only write of a poll loop that goes on
WriteProgress(rec) ==
    /\ db' = rec
    /\ hiProg' = Max(hiProg, rec.progress)

\* progress of monitor_with_adaptive_polling for a non-terminal status
AdaptiveProgress(status, n) ==
    IF status = "queued" THEN Min(40 + n \div 10, 50) ELSE Min(50 + n \div 5, 98)

\* an interval that falls back to the base after two hours
AdaptiveInterval_Reset(n) ==
    IF n < adaptive_threshold THEN base_interval
    ELSE IF n < 2 * adaptive_threshold THEN 60
    ELSE base_interval

\* line 245: interval = base_interval if poll_count < 120 else 60
AdaptiveInterval(n) == IF n < adaptive_threshold THEN base_interval ELSE 60

\* ComprehensiveLargeFileHandler.monitor_with_adaptive_polling: one pass of the loop
P_Adaptive ==
    /\ variant = "adaptive" /\ pc = "poll"
    /\ poll_count < adaptive_max_polls
    /\ interval' = AdaptiveInterval(poll_count)
    /\ requests' = requests + 1
    /\ \E resp \in StatusResponses :
         /\ Glitch(resp)
         /\ IF resp = "ok" /\ job = "completed"
            THEN /\ Finish(C_update_result(db, 100, "completed", 0, JobPayload), "True", "completed")
                 /\ UNCHANGED poll_count
            ELSE IF resp = "ok" /\ job = "error"
            THEN /\ Finish(C_update(db, 90, "error"), "False", "error")
                 /\ UNCHANGED poll_count
            ELSE IF resp = "http404"
            THEN /\ Finish(C_update(db, 0, "error"), "False", "notfound")
                 /\ UNCHANGED poll_count
            ELSE IF resp = "ok"
            THEN /\ WriteProgress(C_update(db, AdaptiveProgress(job, poll_count), "None"))
                 /\ poll_count' = poll_count + 1
                 /\ UNCHANGED <<ret, pc, seen>>
            ELSE /\ poll_count' = poll_count + 1
                 /\ UNCHANGED <<db, hiProg, ret, pc, seen>>
    /\ UNCHANGED <<variant, net, job, poll_elapsed, merged>>
    /\ UNCHANGED <<pipeOnly, upOnly, flowOnly>>

\* lines 306-308: the loop ran out of polls
P_AdaptiveTimeout ==
    /\ variant = "adaptive" /\ pc = "poll"
    /\ poll_count >= adaptive_max_polls
    /\ Finish(C_update(db, 95, "error"), "False", "timedout")
    /\ UNCHANGED <<variant, net, glitches, job, poll_elapsed, poll_count, merged>>
    /\ UNCHANGED <<pipeOnly, upOnly, flowOnly, interval, requests>>

\* RobustLargeFileProcessor.monitor_transcription: one pass of the loop
P_Robust ==
    /\ variant = "robust" /\ pc = "poll"
    /\ poll_count < robust_max_polls
    /\ \E resp \in StatusResponses :
         /\ Glitch(resp)
         /\ IF resp = "ok" /\ job = "completed"
            THEN /\ Finish(C_update_result(db, 100, "completed", 0, JobPayload), "True", "completed")
                 /\ UNCHANGED poll_count
            ELSE IF resp = "ok" /\ job = "error"
            THEN /\ Finish(C_update(db, 90, "error"), "False", "error")
                 /\ UNCHANGED poll_count
            ELSE IF resp = "ok"
            THEN /\ WriteProgress(C_update(db, Min(50 + (poll_count * 8) \div 10, 98), "None"))
                 /\ poll_count' = poll_count + 1
                 /\ UNCHANGED <<ret, pc, seen>>
            ELSE /\ poll_count' = poll_count + 1
                 /\ UNCHANGED <<db, hiProg, ret, pc, seen>>
    /\ UNCHANGED <<variant, net, job, poll_elapsed, merged>>
    /\ UNCHANGED <<pipeOnly, upOnly, flowOnly, interval, requests>>

\* lines 242-244
P_RobustTimeout ==
    /\ variant = "robust" /\ pc = "poll"
    /\ poll_count >= robust_max_polls
    /\ Finish(C_update(db, 95, "error"), "False", "timedout")
    /\ UNCHANGED <<variant, net, glitches, job, poll_elapsed, poll_count, merged>>
    /\ UNCHANGED <<pipeOnly, upOnly, flowOnly, interval, requests>>

\* progress of fast_poll_transcription for a non-terminal status (lines 152-162)
FastProgress(status, elapsed, checks) ==
    IF status = "queued" THEN Min(25, 10 + checks)
    ELSE Min(95, 30 + Min(50, (elapsed * 50) \div 300) + Min(20, checks * 2))

\* the sleep that ends a pass of fast_poll_transcription (lines 172-181)
FastSleep(elapsed, checks) ==
    IF checks <= 3 THEN 2
    ELSE IF elapsed < 60 THEN 3
    ELSE IF elapsed < 180 THEN 4
    ELSE IF elapsed < 600 THEN 6
    ELSE 8

\* fast_transcription.fast_poll_transcription: one pass of the loop
P_Fast ==
    /\ variant = "fast" /\ pc = "poll"
    /\ poll_elapsed <= fast_max_wait_time + Overrun
    /\ poll_count' = poll_count + 1
    /\ \E resp \in StatusResponses :
         /\ Glitch(resp)
         /\ IF resp \in { "http500", "http404" }
            THEN \* time.sleep(2); continue
                 /\ poll_elapsed' = poll_elapsed + 2
                 /\ UNCHANGED <<db, hiProg, ret, pc, seen>>
            ELSE IF resp \in { "timeout", "exception" }
            THEN /\ poll_elapsed' = poll_elapsed + 3
                 /\ UNCHANGED <<db, hiProg, ret, pc, seen>>
            ELSE IF job = "completed"
            THEN /\ Finish(db, "data", "completed")
                 /\ UNCHANGED poll_elapsed
            ELSE IF job = "error"
            THEN /\ Finish(db, "None", "error")
                 /\ UNCHANGED poll_elapsed
            ELSE LET rec == [db EXCEPT !.progress =
                                FastProgress(job, poll_elapsed, poll_count + 1)]
                 IN  IF poll_elapsed > fast_max_wait_time
                     THEN /\ Finish(rec, "None", "timedout")
                          /\ UNCHANGED poll_elapsed
                     ELSE /\ WriteProgress(rec)
                          /\ poll_elapsed' = poll_elapsed + FastSleep(poll_elapsed, poll_count + 1)
                          /\ UNCHANGED <<ret, pc, seen>>
    /\ UNCHANGED <<variant, net, job, merged>>
    /\ UNCHANGED <<pipeOnly, upOnly, flowOnly, interval, requests>>

\* simple_transcription.poll_transcription_status: one pass of the loop
P_Simple ==
    /\ variant = "simple" /\ pc = "poll"
    /\ \E resp \in StatusResponses :
         /\ Glitch(resp)
         /\ IF resp # "ok"
            THEN Finish(db, "raise", seen)
            ELSE IF job = "completed"
            THEN Finish(db, "data", "completed")
            ELSE IF job = "error"
            THEN Finish(db, "raise", "error")
            ELSE IF job = "processing"
            THEN /\ WriteProgress([db EXCEPT !.progress = 60])
                 /\ UNCHANGED <<ret, pc, seen>>
            ELSE UNCHANGED <<db, hiProg, ret, pc, seen>>
    /\ UNCHANGED <<variant, net, job, poll_elapsed, poll_count, merged>>
    /\ UNCHANGED <<pipeOnly, upOnly, flowOnly, interval, requests>>

\* progress of recovery_transcription.poll_transcription_status (lines 108-116)
RecoveryProgress(elapsed) ==
    IF elapsed < 60 THEN 60 ELSE IF elapsed < 300 THEN 75 ELSE IF elapsed < 600 THEN 85 ELSE 95

\* recovery_transcription.poll_transcription_status: one pass of the loop; what it
\* raises is caught by main (lines 248-257), which PATCHes status 'error'
P_Recovery ==
    /\ variant = "recovery" /\ pc = "poll"
    /\ \E resp \in StatusResponses :
         /\ Glitch(resp)
         /\ IF resp # "ok"
            THEN /\ Finish([db EXCEPT !.status = "error", !.error_message = "text"], "raise", seen)
                 /\ UNCHANGED poll_elapsed
            ELSE IF job = "completed"
            THEN /\ Finish(db, "data", "completed")
                 /\ UNCHANGED poll_elapsed
            ELSE IF job = "error"
            THEN /\ Finish([db EXCEPT !.status = "error", !.error_message = "text"], "raise", "error")
                 /\ UNCHANGED poll_elapsed
            ELSE LET rec == IF job = "processing"
                            THEN [db EXCEPT !.progress = RecoveryProgress(poll_elapsed)]
                            ELSE db
                 IN  IF poll_elapsed > recovery_max_wait_time
                     THEN /\ Finish([rec EXCEPT !.status = "error", !.error_message = "text"], "raise", "timedout")
                          /\ UNCHANGED poll_elapsed
                     ELSE /\ WriteProgress(rec)
                          /\ poll_elapsed' = poll_elapsed + 8
                          /\ UNCHANGED <<ret, pc, seen>>
    /\ UNCHANGED <<variant, net, job, poll_count, merged>>
    /\ UNCHANGED <<pipeOnly, upOnly, flowOnly, interval, requests>>

\* RealtimeMonitor.check_status: one pass of the loop; poll_elapsed is time.time() % 30
P_Realtime ==
    /\ variant = "realtime" /\ pc = "poll"
    /\ \E resp \in StatusResponses, latency \in { 0, 1 } :
         /\ Glitch(resp)
         /\ poll_elapsed' = (poll_elapsed + 15 + latency) % 30
         /\ IF resp # "ok"
            THEN UNCHANGED <<db, hiProg, ret, pc, seen>>
            ELSE IF job = "completed"
            THEN Finish(PatchCompleted(db, JobPayload), "None", "completed")
            ELSE IF job = "error"
            THEN Finish([db EXCEPT !.status = "error", !.error_message = "text"], "None", "error")
            ELSE /\ WriteProgress([db EXCEPT !.progress = Min(70 + poll_elapsed, 95)])
                 /\ UNCHANGED <<ret, pc, seen>>
    /\ UNCHANGED <<variant, net, job, poll_count, merged>>
    /\ UNCHANGED <<pipeOnly, upOnly, flowOnly, interval, requests>>

\* progress of TranscriptionWatcher.watch after elapsed seconds (lines 150-153)
WatchProgress(elapsed) ==
    IF elapsed < 600 THEN Min(50 + (elapsed * 3) \div 60, 80)
    ELSE Min(80 + (elapsed - 600) \div 60, 95)

\* TranscriptionWatcher.watch: one pass of the loop (lines 121-159)
P_Watch ==
    /\ variant = "watch" /\ pc = "poll"
    /\ poll_count < watch_max_checks
    /\ poll_count' = poll_count + 1
    /\ \E resp \in StatusResponses, patched \in BOOLEAN :
         /\ Glitch(resp)
         /\ IF resp = "ok" /\ job = "completed"
            THEN /\ seen' = "completed"
                 /\ IF patched
                    THEN /\ WriteProgress(PatchCompleted(db, JobPayload))
                         /\ pc' = "exit"
                         /\ UNCHANGED poll_elapsed
                    ELSE /\ UNCHANGED <<db, hiProg>>
                         /\ pc' = IF poll_count + 1 < watch_max_checks THEN "poll" ELSE "exit"
                         /\ poll_elapsed' = IF poll_count + 1 < watch_max_checks
                                            THEN poll_elapsed + 30 ELSE poll_elapsed
            ELSE IF resp = "ok" /\ job = "error"
            THEN /\ seen' = "error"
                 /\ WriteProgress([db EXCEPT !.status = "error", !.error_message = "text"])
                 /\ pc' = "exit"
                 /\ UNCHANGED poll_elapsed
            ELSE /\ IF resp = "ok"
                    THEN WriteProgress([db EXCEPT !.progress = WatchProgress(poll_elapsed)])
                    ELSE UNCHANGED <<db, hiProg>>
                 /\ pc' = IF poll_count + 1 < watch_max_checks THEN "poll" ELSE "exit"
                 /\ poll_elapsed' = IF poll_count + 1 < watch_max_checks
                                    THEN poll_elapsed + 30 ELSE poll_elapsed
                 /\ UNCHANGED seen
    /\ UNCHANGED <<variant, net, job, merged, ret>>
    /\ UNCHANGED <<pipeOnly, upOnly, flowOnly, interval, requests>>

\* lines 161-168: after the loop
P_WatchExit ==
    /\ variant = "watch" /\ pc = "exit"
    /\ IF poll_count >= watch_max_checks
       THEN /\ db' = [db EXCEPT !.status = "error", !.error_message = "text"]
            /\ seen' = IF seen = "none" THEN "timedout" ELSE seen
       ELSE UNCHANGED <<db, seen>>
    /\ pc' = "done"
    /\ ret' = "None"
    /\ UNCHANGED <<variant, net, glitches, job, poll_elapsed, poll_count, merged, hiProg>>
    /\ UNCHANGED <<pipeOnly, upOnly, flowOnly, interval, requests>>

PollNext ==
    \/ P_Adaptive \/ P_AdaptiveTimeout \/ P_Robust \/ P_RobustTimeout
    \/ P_Fast \/ P_Simple \/ P_Recovery \/ P_Realtime \/ P_Watch \/ P_WatchExit
    \/ ProviderStep

SpecPoll == PollInit /\ [][PollNext]_vars

(***************************************************************************)
(* Properties of the pollers                                               *)
(***************************************************************************)
\* C4: as long as the job has not failed or timed out, a poller never writes a
\* progress lower than the one in the state store, and it writes 100 only when it
\* has seen the job completed.
C4_PollerProgressMonotone ==
    [][ /\ seen' \in { "none", "completed" } => db'.progress >= db.progress
        /\ (db'.progress = 100 /\ db.progress # 100) => seen' = "completed" ]_vars

\* C5: a poll loop that is still running is within its budget: the count of polls of
\* the counting pollers, and for the timed poller the wait budget plus its longest
\* sleep, plus one retry sleep for each transient failure of the provider.
C5_PollerStopsWithinBudget ==
    pc = "poll"
    => /\ variant = "adaptive" => poll_count <= adaptive_max_polls
       /\ variant = "robust" => poll_count <= robust_max_polls
       /\ variant = "watch" => poll_count <= watch_max_checks
       /\ variant = "fast" => poll_elapsed <= fast_max_wait_time + 8 + 3 * glitches

\* C12: a status call that fails for a moment (exception, timeout, non-200 answer)
\* does not end the polling of the adaptive, robust and recovery pollers: nothing
\* is returned and no outcome is recorded in that step.
C12_TransientErrorKeepsPolling ==
    [][ (variant \in { "adaptive", "robust", "recovery" } /\ glitches' > glitches)
        => (pc' = "poll" /\ ret' = ret /\ seen' = seen /\ db'.status = db.status) ]_vars

\* C9: once a poller has seen the job completed or failed, or has timed out, it asks
\* for no further status and writes nothing more to the state store.
C9_TerminalIsFinal ==
    [][ seen # "none" => (poll_count' = poll_count /\ db' = db) ]_vars

\* C34: the interval of the adaptive poller is 30 s at the first status request and
\* 60 s from poll count 120 on, it never shrinks over the life of a job, and a job
\* gets at most 720 status requests.
C34_IntervalWidensOnce ==
    [][ variant = "adaptive"
        => /\ interval' >= interval
           /\ requests' <= adaptive_max_polls
           /\ (requests = 0 /\ requests' = 1) => interval' = 30
           /\ requests' > requests
                => interval' = (IF poll_count >= 120 THEN 60 ELSE 30) ]_vars

\* the adaptive poller has used up its budget on a job that never ended
C34_BudgetUsedUp ==
    /\ variant = "adaptive" /\ pc = "done" /\ seen = "timedout"
    /\ requests = adaptive_max_polls /\ interval = 60 /\ glitches = 0 /\ net = "up"

\* the job id is kept by every write that is not the completed one
JobIdKeptUntilCompleted ==
    [][ (variant \in { "robust", "adaptive" } /\ db.assemblyai_id # 0
           /\ db'.status # "completed")
        => db'.assemblyai_id = db.assemblyai_id ]_vars

\* C36: once the job id is in the record, every later write of the robust and of
\* the adaptive poller (progress, error, completed) leaves it there.
C36_JobIdStaysRecorded ==
    /\ JobIdKeptUntilCompleted
    /\ [][ (variant \in { "robust", "adaptive" } /\ db.assemblyai_id # 0
               /\ db'.status = "completed")
            => db'.assemblyai_id = db.assemblyai_id ]_vars

(***************************************************************************)
(* Uploaders run on one file                                               *)
(***************************************************************************)
Uploaders == { "upload_with_retry", "upload_file", "upload_file_with_retry",
               "upload_with_chunked_strategy" }

UploadAnswers == { "ok", "timeout", "exception", "http4xx", "http5xx" }

UpInit ==
    /\ variant \in Uploaders
    /\ pc = "upload"
    /\ attempt = 0
    /\ up_log = <<>>
    /\ up_waits = <<>>
    /\ up_progress = <<>>
    /\ chunk_size \in IF variant = "upload_with_chunked_strategy"
                      THEN { default_chunk_size, min_chunk_size + 1, min_chunk_size \div 2 }
                      ELSE { 0 }
    /\ db = [InitRecord EXCEPT !.progress = 5, !.status = "processing"]
    /\ hiProg = 5
    /\ ret = "running"
    /\ net = "up" /\ glitches = 0 /\ poll_count = 0 /\ seen = "none"
    /\ interval = 0 /\ requests = 0
    /\ job = "none" /\ poll_elapsed = 0
    /\ merged = NoneResult
    /\ file_size = 0 /\ total_duration = 0 /\ probe_ok = TRUE
    /\ plan = <<>> /\ segments = <<>> /\ i = 1
    /\ segment_results = <<>> /\ outcome = <<>> /\ got = <<>>
    /\ store = 0
    /\ seg_files = {}

\* UploadPass sleeping after every failed attempt, the last one included
UploadPass_WaitAfterLast(maxr, wait, resp) ==
    /\ up_log' = Append(up_log, resp)
    /\ IF resp = "ok"
       THEN /\ ret' = "url"
            /\ pc' = "done"
            /\ UNCHANGED <<attempt, up_waits>>
       ELSE /\ attempt' = attempt + 1
            /\ up_waits' = Append(up_waits, wait)
            /\ pc' = IF attempt + 1 < maxr THEN pc ELSE "done"
            /\ ret' = IF attempt + 1 < maxr THEN ret ELSE "None"

\* UploadPass without the return on success: the url is kept and the loop goes on
UploadPass_NoReturn(maxr, wait, resp) ==
    /\ up_log' = Append(up_log, resp)
    /\ attempt' = attempt + 1
    /\ up_waits' = IF resp # "ok" /\ attempt < maxr - 1 THEN Append(up_waits, wait) ELSE up_waits
    /\ pc' = IF attempt + 1 < maxr THEN pc ELSE "done"
    /\ ret' = IF resp = "ok" THEN "url"
              ELSE IF attempt + 1 < maxr \/ ret = "url" THEN ret ELSE "None"

\* one pass of `for attempt in range(maxr)`: the request is answered resp; on 200 the
\* url is returned, else the loop waits (not after the last attempt) and goes on,
\* and returns None after the last attempt
UploadPass(maxr, wait, resp) ==
    /\ up_log' = Append(up_log, resp)
    /\ IF resp = "ok"
       THEN /\ ret' = "url"
            /\ pc' = "done"
            /\ UNCHANGED <<attempt, up_waits>>
       ELSE /\ attempt' = attempt + 1
            /\ up_waits' = IF attempt < maxr - 1 THEN Append(up_waits, wait) ELSE up_waits
            /\ pc' = IF attempt + 1 < maxr THEN pc ELSE "done"
            /\ ret' = IF attempt + 1 < maxr THEN ret ELSE "None"

\* the same progress before every attempt
AttemptProgress_Flat(kind, n) == 10

\* the progress written before the request of attempt n (0-based): 10 + attempt*3 in
\* the chunked uploader, 10 + attempt*5 in upload_file_with_retry
AttemptProgress(kind, n) ==
    10 + n * (IF kind = "upload_with_chunked_strategy" THEN 3 ELSE 5)

\* LargeFileTranscriptionProcessor.upload_with_retry
U_upload_with_retry ==
    /\ variant = "upload_with_retry" /\ pc = "upload"
    /\ \E resp \in UploadAnswers : UploadPass(max_retries, (attempt + 1) * 60, resp)
    /\ UNCHANGED <<variant, db, hiProg, chunk_size, up_progress, job, poll_elapsed, merged>>
    /\ UNCHANGED <<pipeOnly, pollOnly, flowOnly>>

\* EnhancedLargeFileProcessor.upload_file
U_upload_file ==
    /\ variant = "upload_file" /\ pc = "upload"
    /\ \E resp \in UploadAnswers : UploadPass(max_retries, (attempt + 1) * 30, resp)
    /\ UNCHANGED <<variant, db, hiProg, chunk_size, up_progress, job, poll_elapsed, merged>>
    /\ UNCHANGED <<pipeOnly, pollOnly, flowOnly>>

\* RobustLargeFileProcessor.upload_file_with_retry: update_db(10 + attempt*5) before
\* the request, update_db(30) on success
U_upload_file_with_retry ==
    /\ variant = "upload_file_with_retry" /\ pc = "upload"
    /\ \E resp \in UploadAnswers :
         /\ UploadPass(max_retries, (attempt + 1) * 30, resp)
         /\ LET progress == AttemptProgress(variant, attempt)
                before == C_update(db, progress, "None")
            IN  /\ db' = IF resp = "ok" THEN C_update(before, 30, "None") ELSE before
                /\ hiProg' = Max(hiProg, IF resp = "ok" THEN 30 ELSE progress)
                /\ up_progress' = IF resp = "ok" THEN up_progress \o <<progress, 30>>
                                  ELSE Append(up_progress, progress)
    /\ UNCHANGED <<variant, chunk_size, job, poll_elapsed, merged>>
    /\ UNCHANGED <<pipeOnly, pollOnly, flowOnly>>

\* the chunk size halved, without a floor
NextChunkSize_Half(size) == size \div 2

\* line 186: chunk_size = max(chunk_size // 2, 524288)
NextChunkSize(size) == Max(size \div 2, min_chunk_size)

\* ComprehensiveLargeFileHandler.upload_with_chunked_strategy: update_database(10 +
\* attempt*3) before the request, update_database(30) on success, smaller chunks
\* after a failed attempt that is not the last
U_upload_with_chunked_strategy ==
    /\ variant = "upload_with_chunked_strategy" /\ pc = "upload"
    /\ \E resp \in UploadAnswers :
         /\ UploadPass(chunked_max_retries, Min(60 * (attempt + 1), 300), resp)
         /\ LET progress == AttemptProgress(variant, attempt)
                before == C_update(db, progress, "None")
            IN  /\ db' = IF resp = "ok" THEN C_update(before, 30, "None") ELSE before
                /\ hiProg' = Max(hiProg, IF resp = "ok" THEN 30 ELSE progress)
                /\ up_progress' = IF resp = "ok" THEN up_progress \o <<progress, 30>>
                                  ELSE Append(up_progress, progress)
         /\ chunk_size' = IF resp # "ok" /\ attempt < chunked_max_retries - 1
                          THEN NextChunkSize(chunk_size) ELSE chunk_size
    /\ UNCHANGED <<variant, job, poll_elapsed, merged>>
    /\ UNCHANGED <<pipeOnly, pollOnly, flowOnly>>

UpMaxRetries(kind) ==
    IF kind = "upload_with_chunked_strategy" THEN chunked_max_retries ELSE max_retries

UpNext ==
    \/ U_upload_with_retry \/ U_upload_file \/ U_upload_file_with_retry
    \/ U_upload_with_chunked_strategy

SpecUp == UpInit /\ [][UpNext]_vars

(***************************************************************************)
(* Properties of the uploaders                                             *)
(***************************************************************************)
\* C6: an upload makes at most its maximum of requests; a request that succeeds is
\* the last one and its url is returned; None is returned only after the maximum of
\* requests, all failed.
C6_UploadReturnsFirstSuccess ==
    /\ Len(up_log) <= UpMaxRetries(variant)
    /\ \A k \in 1..Len(up_log) :
         up_log[k] = "ok" => (k = Len(up_log) /\ pc = "done" /\ ret = "url")
    /\ pc # "done" => ret = "running"
    /\ pc = "done"
         => \/ ret = "url" /\ up_log[Len(up_log)] = "ok"
            \/ /\ ret = "None" /\ Len(up_log) = UpMaxRetries(variant)
               /\ \A k \in 1..Len(up_log) : up_log[k] # "ok"

C6_ThirdAttemptSucceeds ==
    /\ variant = "upload_with_retry" /\ pc = "done" /\ ret = "url"
    /\ up_log = << "timeout", "timeout", "ok" >>

\* C13: a 4xx answer to an upload request ends the upload: it is the last request
\* made and the upload has returned a failure.
C13_ClientErrorEndsUpload ==
    \A k \in 1..Len(up_log) :
        up_log[k] = "http4xx" => (k = Len(up_log) /\ pc = "done" /\ ret = "None")

\* the longest wait an uploader may insert, in seconds
WaitCap == 300

\* the wait after failed attempt n (1-based) that is not the last
WaitAfter(kind, n) ==
    IF kind = "upload_with_chunked_strategy" THEN Min(60 * n, WaitCap)
    ELSE IF kind = "upload_with_retry" THEN 60 * n
    ELSE 30 * n

\* C31: the waits of an upload are exactly one per failed attempt that is not the
\* last one, the wait after failed attempt n is min(60*n, 300) s in the chunked
\* uploader, 60*n in upload_with_retry and 30*n in the others, the sequence never
\* decreases and never exceeds the cap, and neither a success nor the last attempt
\* is followed by a wait.
C31_WaitsGrowAndAreCapped ==
    /\ Len(up_waits) = IF ret = "url" THEN Len(up_log) - 1
                       ELSE Min(Len(up_log), UpMaxRetries(variant) - 1)
    /\ \A n \in 1..Len(up_waits) :
          /\ up_log[n] # "ok"
          /\ up_waits[n] = WaitAfter(variant, n)
          /\ up_waits[n] <= WaitCap
          /\ n > 1 => up_waits[n - 1] <= up_waits[n]

\* the chunked uploader has failed five times and has waited four times
C31_AllAttemptsFailed ==
    /\ variant = "upload_with_chunked_strategy" /\ pc = "done" /\ ret = "None"
    /\ Len(up_log) = 5 /\ up_waits = <<60, 120, 180, 240>>

\* the chunked uploader goes on to another attempt
ChunkedRetry ==
    variant = "upload_with_chunked_strategy" /\ pc = "upload" /\ pc' = "upload"

ProgressUploaders == { "upload_file_with_retry", "upload_with_chunked_strategy" }

\* the progress written when an upload has succeeded
UploadedProgress == 30

\* C33: an uploader that writes progress writes one value per attempt, before the
\* request; the values of the attempts of one upload are strictly increasing and
\* below the value written on success, which is written once, after the request
\* that succeeded.
C33_OneRisingUpdatePerAttempt ==
    variant \in ProgressUploaders
    => /\ Len(up_progress) = Len(up_log) + (IF ret = "url" THEN 1 ELSE 0)
       /\ \A n \in 1..Len(up_log) :
             /\ up_progress[n] < UploadedProgress
             /\ n > 1 => up_progress[n - 1] < up_progress[n]
       /\ ret = "url" => up_progress[Len(up_progress)] = UploadedProgress

\* the third attempt of upload_file_with_retry succeeded
C33_RetriesThenSuccess ==
    /\ variant = "upload_file_with_retry" /\ pc = "done" /\ ret = "url"
    /\ up_progress = <<10, 15, 20, 30>>

(***************************************************************************)
(* Single-file workflows: lookup, upload, submit, poll, with a state store *)
(* whose writes may fail                                                   *)
(***************************************************************************)
Flows == { "robust_workflow", "comprehensive_workflow", "direct", "final" }

\* how many writes to the state store may fail in one run
MaxFaults == 2

\* update_progress of process_large_file_direct and update_status of
\* process_large_file_final have no try: a failed write raises
WriteRaises(kind) == kind \in { "direct", "final" }

\* whether a write to the state store goes through, f writes having failed
WriteOks(f) == IF f < MaxFaults THEN BOOLEAN ELSE { TRUE }

\* the failed writes after one more write
Faults(f, ok) == IF ok THEN f ELSE f + 1

\* update_progress / update_status of direct and final: status always written
D_update(rec, progress, status) ==
    [rec EXCEPT !.progress = progress, !.status = status]

D_update_result(rec, progress, status, r) ==
    [rec EXCEPT !.progress = progress, !.status = status, !.assemblyai_id = r.id,
                !.text = r.text, !.confidence = r.confidence,
                !.duration = r.audio_duration \div 1000, !.has_result = TRUE]

\* the update function of the workflow kind
FlowUpdate(kind, rec, progress, status) ==
    IF WriteRaises(kind)
    THEN D_update(rec, progress, IF status = "None" THEN "processing" ELSE status)
    ELSE C_update(rec, progress, status)

FlowInit ==
    /\ variant \in Flows
    /\ store = 0
    /\ seg_files = {}
    /\ pc = "lookup"
    /\ db = InitRecord
    /\ hiProg = 0
    /\ ret = "running"
    /\ job = "none" /\ poll_elapsed = 0
    /\ net = "up" /\ glitches = 0 /\ poll_count = 0 /\ seen = "none"
    /\ interval = 0 /\ requests = 0
    /\ attempt = 0 /\ up_log = <<>> /\ up_waits = <<>> /\ chunk_size = 0
    /\ up_progress = <<>>
    /\ merged = NoneResult
    /\ file_size = 0 /\ total_duration = 0 /\ probe_ok = TRUE
    /\ plan = <<>> /\ segments = <<>> /\ i = 1
    /\ segment_results = <<>> /\ outcome = <<>> /\ got = <<>>

\* rec is left in the state store, hi is the highest progress the step wrote before
\* any failure write, the workflow goes on at next with return value r
FlowTo(rec, hi, next, r, f) ==
    /\ db' = rec
    /\ hiProg' = Max(hiProg, hi)
    /\ pc' = next
    /\ ret' = r
    /\ store' = f

\* the workflow returns r with rec in the state store
FlowEnd(rec, r, f) == FlowTo(rec, rec.progress, "done", r, f)

\* `except Exception: update(0, 'error'); return False` of direct and final; the
\* write of the handler has no try either
FlowExcept(rec, f) ==
    \E ok \in WriteOks(f) :
        IF ok THEN FlowTo(D_update(rec, 0, "error"), rec.progress, "done", "False", f)
        ELSE FlowTo(rec, rec.progress, "done", "exception", f + 1)

\* a failure exit that writes the record as completed
FlowFail_Completed(rec, progress, f) ==
    FlowTo(FlowUpdate(variant, rec, 100, "completed"), rec.progress, "done", "False", f)

\* a failure exit: update(progress, 'error'); return False
FlowFail(rec, progress, f) ==
    \E ok \in WriteOks(f) :
        IF ok
        THEN FlowTo(FlowUpdate(variant, rec, progress, "error"), rec.progress,
                    "done", "False", f)
        ELSE IF WriteRaises(variant) THEN FlowExcept(rec, f + 1)
        ELSE FlowTo(rec, rec.progress, "done", "False", f + 1)

\* a write on the way: rec is in the store, new is written, the workflow goes on
\* at next
FlowStep(rec, new, next, f) ==
    \E ok \in WriteOks(f) :
        IF ok THEN FlowTo(new, Max(rec.progress, new.progress), next, ret, f)
        ELSE IF WriteRaises(variant) THEN FlowExcept(rec, f + 1)
        ELSE FlowTo(rec, rec.progress, next, ret, f + 1)

\* the polling loop goes round once more, the record left as rec
FlowAgain(rec, f) ==
    /\ FlowTo(rec, rec.progress, pc, ret, f)
    /\ poll_count' = poll_count + 1

\* the external answers that decided the run, in order (at most two are kept)
Decided(how) == outcome' = IF Len(outcome) < 2 THEN Append(outcome, how) ELSE outcome

flowRest == <<file_size, total_duration, probe_ok, plan, segments, i, segment_results,
              merged, got, net, poll_elapsed, up_log, up_waits, chunk_size, variant,
              seg_files, up_progress, interval, requests>>

\* the record of the run is read from the state store
F_Lookup ==
    /\ pc = "lookup"
    /\ \E found \in BOOLEAN, ok1 \in WriteOks(store) :
         LET wrote == variant = "robust_workflow"
             first == IF wrote /\ ok1 THEN C_update(db, 5, "processing") ELSE db
             f1    == IF wrote THEN Faults(store, ok1) ELSE store
         IN  /\ wrote \/ ok1
             /\ IF found
                THEN /\ FlowTo(first, first.progress, "validate", ret, f1)
                     /\ UNCHANGED outcome
                ELSE /\ Decided("norecord")
                     /\ IF WriteRaises(variant)
                        THEN \* `if not result: return False`
                             FlowEnd(db, "False", store)
                        ELSE FlowFail(first, 0, f1)
    /\ UNCHANGED <<job, poll_count, glitches, seen, attempt>>
    /\ UNCHANGED flowRest

\* the source file is looked for, and the first progress is written
F_Validate ==
    /\ pc = "validate"
    /\ \E exists \in BOOLEAN :
         IF variant = "comprehensive_workflow"
         THEN IF exists
              THEN FlowStep(db, C_update(db, 5, "processing"), "upload", store)
                   /\ UNCHANGED outcome
              ELSE FlowFail(db, 0, store) /\ Decided("nofile")
         ELSE IF variant = "direct"
         THEN IF exists
              THEN FlowStep(db, D_update(db, 5, "processing"), "upload", store)
                   /\ UNCHANGED outcome
              ELSE FlowEnd(db, "False", store) /\ Decided("nofile")
         ELSE IF variant = "final"
         THEN /\ exists
              /\ FlowStep(db, D_update(db, 10, "processing"), "upload", store)
              /\ UNCHANGED outcome
         ELSE /\ exists
              /\ FlowTo(db, db.progress, "upload", ret, store)
              /\ UNCHANGED outcome
    /\ UNCHANGED <<job, poll_count, glitches, seen, attempt>>
    /\ UNCHANGED flowRest

FlowMaxRetries(kind) ==
    IF kind = "comprehensive_workflow" THEN chunked_max_retries
    ELSE IF kind = "robust_workflow" THEN max_retries
    ELSE 1

\* the file is uploaded: one pass of the retry loop of upload_file_with_retry /
\* upload_with_chunked_strategy, the single request of direct and final
F_Upload ==
    /\ pc = "upload"
    /\ IF ~WriteRaises(variant)
       THEN \E resp \in Responses, ok1 \in WriteOks(store) :
              LET step == IF variant = "robust_workflow" THEN 5 ELSE 3
                  before == IF ok1 THEN C_update(db, 10 + attempt * step, "None") ELSE db
                  f1 == Faults(store, ok1)
              IN  IF resp = "ok"
                  THEN /\ FlowStep(before, C_update(before, 30, "None"), "submit", f1)
                       /\ UNCHANGED <<attempt, outcome>>
                  ELSE IF attempt + 1 < FlowMaxRetries(variant)
                  THEN /\ FlowTo(before, before.progress, pc, ret, f1)
                       /\ attempt' = attempt + 1
                       /\ UNCHANGED outcome
                  ELSE /\ FlowFail(before, 0, f1)
                       /\ Decided("upfail")
                       /\ attempt' = attempt + 1
       ELSE \E resp \in { "ok", "fail", "exception" } :
              /\ attempt' = attempt + 1
              /\ IF resp = "ok"
                 THEN /\ FlowStep(db, D_update(db, IF variant = "direct" THEN 30 ELSE 40,
                                               "processing"), "submit", store)
                      /\ UNCHANGED outcome
                 ELSE IF resp = "fail"
                 THEN FlowFail(db, 0, store) /\ Decided("upfail")
                 ELSE FlowExcept(db, store) /\ Decided("upfail")
    /\ UNCHANGED <<job, poll_count, glitches, seen>>
    /\ UNCHANGED flowRest

\* the job is submitted
F_Submit ==
    /\ pc = "submit"
    /\ \E resp \in { "ok", "fail", "exception" } :
         LET withId == [db EXCEPT !.assemblyai_id = 100]
         IN  IF resp = "ok"
             THEN /\ FlowStep(db, IF variant = "robust_workflow"
                                  THEN C_update(withId, 50, "None")
                                  ELSE IF variant = "comprehensive_workflow"
                                  THEN C_update(withId, 40, "processing")
                                  ELSE D_update(withId, 50, "processing"), "poll", store)
                  /\ UNCHANGED outcome
             ELSE IF resp = "exception" /\ WriteRaises(variant)
             THEN FlowExcept(db, store) /\ Decided("subfail")
             ELSE FlowFail(db, IF variant = "final" THEN 35 ELSE 25, store)
                  /\ Decided("subfail")
    /\ job' = "queued"
    /\ UNCHANGED <<poll_count, glitches, seen, attempt>>
    /\ UNCHANGED flowRest

direct_max_polls == 480
final_max_polls == 480

FlowMaxPolls(kind) ==
    IF kind = "comprehensive_workflow" THEN adaptive_max_polls
    ELSE IF kind = "robust_workflow" THEN robust_max_polls
    ELSE IF kind = "direct" THEN direct_max_polls
    ELSE final_max_polls

\* progress written for a job seen queued or processing at poll n
FlowProgress(kind, status, n) ==
    IF kind = "comprehensive_workflow" THEN AdaptiveProgress(status, n)
    ELSE IF kind = "robust_workflow" THEN Min(50 + (n * 8) \div 10, 98)
    ELSE Min(50 + (n * 3) \div 10, 98)

\* one pass of the polling loop
F_Poll ==
    /\ pc = "poll"
    /\ poll_count < FlowMaxPolls(variant)
    /\ \E resp \in StatusResponses, ok \in WriteOks(store) :
         LET f1 == Faults(store, ok)
         IN
         /\ Glitch(resp)
         /\ IF resp = "ok" /\ job = "completed"
            THEN /\ seen' = "completed"
                 /\ Decided("ok")
                 /\ IF ~WriteRaises(variant)
                    THEN /\ FlowEnd(IF ok THEN C_update_result(db, 100, "completed", 100, JobPayload)
                                    ELSE db, "True", f1)
                         /\ UNCHANGED poll_count
                    ELSE IF ok
                    THEN /\ FlowEnd(D_update_result(db, 100, "completed", JobPayload), "True", f1)
                         /\ UNCHANGED poll_count
                    ELSE IF variant = "direct"
                    THEN FlowAgain(db, f1)
                    ELSE FlowExcept(db, f1) /\ UNCHANGED poll_count
            ELSE IF resp = "ok" /\ job = "error"
            THEN /\ seen' = "error"
                 /\ Decided("error")
                 /\ IF variant = "direct" /\ ~ok
                    THEN FlowAgain(db, f1)
                    ELSE /\ IF ok THEN FlowEnd(FlowUpdate(variant, db, 90, "error"), "False", f1)
                               ELSE IF WriteRaises(variant) THEN FlowExcept(db, f1)
                               ELSE FlowEnd(db, "False", f1)
                         /\ UNCHANGED poll_count
            ELSE IF resp = "http404" /\ variant = "comprehensive_workflow"
            THEN /\ seen' = "notfound"
                 /\ Decided("notfound")
                 /\ FlowEnd(IF ok THEN C_update(db, 0, "error") ELSE db, "False", f1)
                 /\ UNCHANGED poll_count
            ELSE IF resp = "ok"
            THEN /\ UNCHANGED seen
                 /\ IF ok
                    THEN FlowAgain(FlowUpdate(variant, db,
                                              FlowProgress(variant, job, poll_count), "None"), f1)
                         /\ UNCHANGED outcome
                    ELSE IF variant = "final"
                    THEN FlowExcept(db, f1) /\ Decided("exc") /\ UNCHANGED poll_count
                    ELSE FlowAgain(db, f1) /\ UNCHANGED outcome
            ELSE /\ ok
                 /\ UNCHANGED seen
                 /\ IF variant = "final" /\ resp \in { "timeout", "exception" }
                    THEN FlowExcept(db, store) /\ Decided("exc") /\ UNCHANGED poll_count
                    ELSE FlowAgain(db, store) /\ UNCHANGED outcome
    /\ UNCHANGED <<job, attempt>>
    /\ UNCHANGED flowRest

\* the polling budget is used up
F_PollTimeout ==
    /\ pc = "poll"
    /\ poll_count >= FlowMaxPolls(variant)
    /\ FlowFail(db, 95, store)
    /\ Decided("timeout")
    /\ seen' = "timedout"
    /\ UNCHANGED <<job, poll_count, glitches, attempt>>
    /\ UNCHANGED flowRest

FlowNext ==
    \/ F_Lookup \/ F_Validate \/ F_Upload \/ F_Submit \/ F_Poll \/ F_PollTimeout
    \/ ProviderStep

SpecFlow == FlowInit /\ [][FlowNext]_vars

(***************************************************************************)
(* Properties of the single-file workflows                                 *)
(***************************************************************************)
\* C14: a run that ends in failure, no write to the state store having failed,
\* leaves status error and a message in the record, on every failure path.
C14_FailureIsRecorded ==
    (pc = "done" /\ ret # "True" /\ store = 0)
        => (db.status = "error" /\ db.error_message # "")

\* C15: failed writes to the state store change neither the calls made nor the
\* outcome: no run ends with an exception, one external answer decides a run, and
\* the run returns True exactly when that answer is the completed job.
C15_WriteFailureNeverFatal ==
    /\ ret # "exception"
    /\ Len(outcome) <= 1
    /\ pc = "done" => (Len(outcome) = 1 /\ (ret = "True" <=> outcome[1] = "ok"))

\* C17: on the failure paths upload exhausted, submission failure, job error,
\* polling timeout and exception, the progress written with the failed status is not
\* lower than the highest progress written before in the run.
C17_FailureKeepsProgress ==
    (/\ pc = "done" /\ ret = "False" /\ store = 0 /\ db.status = "error"
     /\ Len(outcome) >= 1
     /\ outcome[1] \in { "upfail", "subfail", "error", "timeout", "exc" })
        => db.progress >= hiProg

\* the answers after which a run must not be written as completed
FailureAnswers == { "norecord", "nofile", "upfail", "subfail", "error", "notfound",
                    "timeout", "exc" }

Racers == { "adaptive", "robust" }

RaceInit ==
    /\ variant \in Racers
    /\ net = "up"
    /\ pc = "poll"
    /\ job = "queued"
    /\ poll_elapsed = 0
    /\ poll_count = 0
    /\ interval = 0 /\ requests = 0
    /\ glitches = 0
    /\ seen = "none"
    /\ db = [InitRecord EXCEPT !.progress = ProgressBeforePolling(variant),
                               !.status = "processing", !.assemblyai_id = 100]
    /\ hiProg = ProgressBeforePolling(variant)
    /\ ret = "running"
    /\ merged = NoneResult
    /\ file_size = 0 /\ total_duration = 0 /\ probe_ok = TRUE
    /\ plan = <<>> /\ segments = <<>> /\ i = 1
    /\ segment_results = <<>> /\ outcome = <<>> /\ got = <<>>
    /\ attempt = 0 /\ up_log = <<>> /\ up_waits = <<>> /\ chunk_size = 0
    /\ up_progress = <<>>
    /\ store = 0
    /\ seg_files = {}

RaceMaxPolls == IF variant = "adaptive" THEN adaptive_max_polls ELSE robust_max_polls

raceRest == <<variant, net, job, poll_elapsed, merged, file_size, total_duration,
              probe_ok, plan, segments, i, segment_results, outcome, seg_files,
              interval, requests>>

\* the poller's status request is answered: got holds the answer until the poller
\* has acted on it
R_Get ==
    /\ pc = "poll" /\ got = <<>>
    /\ poll_count < RaceMaxPolls
    /\ \E resp \in StatusResponses :
         /\ Glitch(resp)
         /\ got' = << IF resp = "ok" THEN job ELSE resp >>
    /\ UNCHANGED <<db, hiProg, ret, pc, seen, poll_count>>
    /\ UNCHANGED raceRest
    /\ UNCHANGED <<upOnly, flowOnly>>

\* the poller acts on the answer it holds
R_Write ==
    /\ pc = "poll" /\ got # <<>>
    /\ got' = <<>>
    /\ LET obs == got[1]
       IN  IF obs = "completed"
           THEN /\ Finish(C_update_result(db, 100, "completed", 0, JobPayload), "True", "completed")
                /\ UNCHANGED poll_count
           ELSE IF obs = "error"
           THEN /\ Finish(C_update(db, 90, "error"), "False", "error")
                /\ UNCHANGED poll_count
           ELSE IF obs = "http404" /\ variant = "adaptive"
           THEN /\ Finish(C_update(db, 0, "error"), "False", "notfound")
                /\ UNCHANGED poll_count
           ELSE IF obs \in { "queued", "processing" }
           THEN /\ WriteProgress(C_update(db, IF variant = "adaptive"
                                              THEN AdaptiveProgress(obs, poll_count)
                                              ELSE Min(50 + (poll_count * 8) \div 10, 98),
                                          "None"))
                /\ poll_count' = poll_count + 1
                /\ UNCHANGED <<ret, pc, seen>>
           ELSE /\ poll_count' = poll_count + 1
                /\ UNCHANGED <<db, hiProg, ret, pc, seen>>
    /\ UNCHANGED glitches
    /\ UNCHANGED raceRest
    /\ UNCHANGED <<upOnly, flowOnly>>

\* the poller's budget is used up
R_Timeout ==
    /\ pc = "poll" /\ got = <<>>
    /\ poll_count >= RaceMaxPolls
    /\ Finish(C_update(db, 95, "error"), "False", "timedout")
    /\ UNCHANGED <<glitches, poll_count, got>>
    /\ UNCHANGED raceRest
    /\ UNCHANGED <<upOnly, flowOnly>>

\* update_completed_transcription of the monitor
M_update(rec, r) ==
    [rec EXCEPT !.progress = 100, !.status = "completed",
                !.text = r.text, !.utterances = r.utterances,
                !.confidence = r.confidence,
                !.duration = r.audio_duration \div 1000,
                !.has_result = TRUE]

\* auto_update_completed of the monitor: a record that is processing and has a job
\* id is completed when the provider says the job is
M_AutoUpdate ==
    /\ db.assemblyai_id # 0 /\ db.status = "processing"
    /\ job = "completed"
    /\ db' = M_update(db, JobPayload)
    /\ UNCHANGED <<hiProg, ret, pc, seen, glitches, poll_count, got>>
    /\ UNCHANGED raceRest
    /\ UNCHANGED <<upOnly, flowOnly>>

RaceNext == R_Get \/ R_Write \/ R_Timeout \/ M_AutoUpdate \/ ProviderStep

SpecRace == RaceInit /\ [][RaceNext]_vars

\* C16: with the poller and the monitor writing the same record, no write that is
\* not a failure write lowers the progress, and once completed with progress 100 is
\* in the record no later write lowers the progress or changes the status.
C16_RecordNeverMovesBackward ==
    [][ /\ db'.status # "error" => db'.progress >= db.progress
        /\ (db.status = "completed" /\ db.progress = 100)
              => (db'.status = "completed" /\ db'.progress = 100) ]_vars

(***************************************************************************)
(* A segment's job polled again and again by the pipelines' pollers        *)
(***************************************************************************)
\* how many times the job is polled to its end
MaxRepolls == 3

enhanced_max_polls == 480

\* lines 295-301 of monitor_transcription, 243-248 of poll_transcription_status:
\* what the poller returns for a terminal status
StatusResult_Empty(status, data) == NoneResult

StatusResult(status, data) == IF status = "completed" THEN data ELSE NoneResult

\* progress the workflow wrote before polling segment k of MaxSegs
RepollProgress(kind, k) ==
    IF kind = "enhanced" THEN 15 + ((k - 1) * 40) \div MaxSegs
    ELSE 20 + (k - 1) * (70 \div MaxSegs) + (70 \div MaxSegs) \div 3

RepollInit ==
    /\ variant \in { "enhanced", "legacy" }
    /\ plan = SlicePlan(MaxSegs, segment_duration)
    /\ segments = [k \in 1..MaxSegs |-> k]
    /\ i \in 1..MaxSegs
    /\ job \in { "processing", "completed" }
    /\ pc = "poll"
    /\ net = "up"
    /\ poll_elapsed = 0 /\ poll_count = 0 /\ glitches = 0 /\ seen = "none"
    /\ interval = 0 /\ requests = 0
    /\ db = [InitRecord EXCEPT !.progress = RepollProgress(variant, i),
                               !.status = "processing", !.assemblyai_id = 100 + i]
    /\ hiProg = RepollProgress(variant, i)
    /\ ret = "running"
    /\ merged = NoneResult
    /\ file_size = MaxSegs * target_size_mb * MB
    /\ total_duration = MaxSegs * segment_duration /\ probe_ok = TRUE
    /\ segment_results = <<>> /\ outcome = <<>> /\ got = <<>>
    /\ attempt = 0 /\ up_log = <<>> /\ up_waits = <<>> /\ chunk_size = 0
    /\ up_progress = <<>>
    /\ store = 0
    /\ seg_files = {}

\* what the provider holds for the job: the same transcript at every request
ProviderAnswer ==
    IF got # <<>> THEN { got[1] }
    ELSE IF variant = "enhanced" THEN Payloads(plan, segments[i])
    ELSE L_Payloads(plan, segments[i])

\* the poller returns r to its caller, who may call it again
Q_Return(r) ==
    /\ segment_results' = Append(segment_results, r)
    /\ poll_count' = 0
    /\ poll_elapsed' = 0
    /\ pc' = IF Len(segment_results) + 1 >= MaxRepolls THEN "done" ELSE "poll"

repollRest == <<variant, file_size, total_duration, probe_ok, plan, segments, i, job,
                merged, ret, outcome, net, seen, seg_files, interval, requests>>

\* EnhancedLargeFileProcessor.monitor_transcription: one pass of the loop
Q_Monitor ==
    /\ variant = "enhanced" /\ pc = "poll"
    /\ poll_count < enhanced_max_polls
    /\ \E resp \in StatusResponses, data \in ProviderAnswer :
         /\ Glitch(resp)
         /\ IF resp = "ok" /\ job \in { "completed", "error" }
            THEN /\ Q_Return(StatusResult(job, data))
                 /\ got' = IF job = "completed" THEN Append(got, data) ELSE got
            ELSE /\ poll_count' = poll_count + 1
                 /\ UNCHANGED <<segment_results, got, poll_elapsed, pc>>
    /\ UNCHANGED <<db, hiProg>>
    /\ UNCHANGED repollRest
    /\ UNCHANGED <<upOnly, flowOnly>>

\* the for loop of monitor_transcription is used up
Q_MonitorTimeout ==
    /\ variant = "enhanced" /\ pc = "poll"
    /\ poll_count >= enhanced_max_polls
    /\ Q_Return(NoneResult)
    /\ UNCHANGED <<db, hiProg, got, glitches>>
    /\ UNCHANGED repollRest
    /\ UNCHANGED <<upOnly, flowOnly>>

\* LargeFileTranscriptionProcessor.poll_transcription_status: one pass of the loop
Q_Poll ==
    /\ variant = "legacy" /\ pc = "poll"
    /\ poll_elapsed < max_wait_time
    /\ \E resp \in StatusResponses, data \in ProviderAnswer :
         /\ Glitch(resp)
         /\ IF resp = "ok" /\ job \in { "completed", "error" }
            THEN /\ Q_Return(StatusResult(job, data))
                 /\ got' = IF job = "completed" THEN Append(got, data) ELSE got
                 /\ UNCHANGED <<db, hiProg>>
            ELSE IF resp = "ok"
            THEN /\ WriteProgress(L_update_progress(db, L_PollProgress(job), "None"))
                 /\ poll_elapsed' = poll_elapsed + polling_interval
                 /\ UNCHANGED <<segment_results, got, poll_count, pc>>
            ELSE /\ poll_elapsed' = poll_elapsed + polling_interval
                 /\ UNCHANGED <<segment_results, got, poll_count, pc, db, hiProg>>
    /\ UNCHANGED repollRest
    /\ UNCHANGED <<upOnly, flowOnly>>

\* the wait budget of poll_transcription_status is used up
Q_PollTimeout ==
    /\ variant = "legacy" /\ pc = "poll"
    /\ poll_elapsed >= max_wait_time
    /\ Q_Return(NoneResult)
    /\ UNCHANGED <<db, hiProg, got, glitches>>
    /\ UNCHANGED repollRest
    /\ UNCHANGED <<upOnly, flowOnly>>

RepollNext == Q_Monitor \/ Q_MonitorTimeout \/ Q_Poll \/ Q_PollTimeout \/ ProviderStep

SpecRepoll == RepollInit /\ [][RepollNext]_vars

\* a status check is made in the step: the poller is within its budget
WithinBudget ==
    /\ pc = "poll"
    /\ variant = "enhanced" => poll_count < enhanced_max_polls
    /\ variant = "legacy" => poll_elapsed < max_wait_time

\* C23: a status check that is answered for a completed job ends the poll at once;
\* what the poller returns is the provider's transcript, the same as at every earlier
\* poll of the job, and the poller writes nothing to the state store.
C23_RepollIsIdempotent ==
    [][ (WithinBudget /\ job = "completed" /\ glitches' = glitches)
          => /\ Len(segment_results') = Len(segment_results) + 1
             /\ segment_results'[Len(segment_results')] = got'[Len(got')]
             /\ \A k \in 1..Len(segment_results) :
                   Truthy(segment_results[k])
                      => segment_results[k] = segment_results'[Len(segment_results')]
             /\ db' = db ]_vars

\* a job that was completed from the start, polled to its end MaxRepolls times
C23_CompletedPolledAgain ==
    /\ pc = "done" /\ Len(got) = MaxRepolls /\ glitches = 0
    /\ \A k \in 1..MaxRepolls : Truthy(segment_results[k])
    /\ hiProg = RepollProgress(variant, i)

====
